---- MODULE Spec2Model ----
(***************************************************************************)
(* Verification model of the Chainlink registry supervisor:                *)
(*   - ProcessManager (apps/chainlink-supervisor/src/process-manager.ts)   *)
(*   - ChainlinkSupervisor (apps/chainlink-supervisor/src/index.ts)        *)
(* One action is one turn of the Node.js event loop: a timer callback, a   *)
(* child 'exit' event or an I/O completion, together with every promise    *)
(* continuation (microtask) that runs before the next turn.                *)
(***************************************************************************)
EXTENDS Integers, Sequences, FiniteSets, TLC

(* ------------------------------ bounds -------------------------------- *)
MaxChildren == 5        \* child processes that exist at the same time
MaxRetriesCfg == 1      \* largest configured maxRetries that is explored
\* specification Spec: workers that crash and the health timer
MaxHealthTicks == 2     \* firings of the health interval
MaxCrashes == 2         \* exits of a worker that nobody signalled
MaxPolls == 1           \* firings of the discovery interval
\* specification SpecReconf: the discovery reconfigures the aggregators app
ReconfHealthTicks == 1
ReconfCrashes == 1
ReconfPolls == 1
\* specification SpecStop: a termination signal arrives
StopHealthTicks == 1
\* specification SpecGate: rows stored by the flags indexer, runs of the
\* discovery interval, workers that exit on their own
MaxRows == 4
GatePolls == 2
GateCrashes == 1
\* specification SpecRegistry: workers that exit on their own
RegCrashes == 2
\* specification SpecReady: workers that exit on their own
ReadyCrashes == 1
\* specification SpecGateLive: workers that exit on their own
LiveCrashes == 2
\* specification SpecMonitor: runs of checkStatus
MaxChecks == 4
\* specification SpecRoute: token symbols, feeds of the chain, largest maxHops
MaxTokens == 4
MaxFeeds == 3
MaxHopsArg == 3
\* specification SpecDiscovery: rows of the store, calls of the two classes
DiscRows == 3
DiscCalls == 2

(* --------------------------- program constants ------------------------ *)
Roles == {"indexer", "server"}
Slots == {"flags", "aggregators", "registry"} \X Roles

\* the async functions of the supervisor; a timer callback starts its run
\* when the previous run of the same callback has returned
TaskIds == {"boot", "stop", "poll", "health"}

\* the grace window a stopped process is given: 10 seconds; the clock of
\* the model advances by one grace window per tick
GraceWindowMs == 10000
\* stopProcess: setTimeout(..., 10000) before SIGKILL (a mutant waits half)
StopTimeoutMsShort == GraceWindowMs \div 2
StopTimeoutMs == 10000
TimerTicks(ms) == ms \div GraceWindowMs

VARIABLES
    maxRetries,       \* SupervisorConfig.maxRetries
    isRunning,        \* ChainlinkSupervisor.isRunning
    healthTimer,      \* the healthInterval of startHealthMonitoring is armed
    discoveryTimer,   \* ChainlinkSupervisor.discoveryInterval is armed
    exited,           \* process.exit was called: 0 = no, 1 = exit(0), 2 = exit(1)
    processes,        \* ProcessManager.processes, per manager and role
    processInfo,      \* ProcessManager.processInfo, per manager and role
    child,            \* the ChildProcess objects spawned so far
    waiters,          \* pending stopProcess promises (SIGTERM sent, timer armed)
    tasks,            \* the async functions in flight and where they are suspended
    restartsInvoked,  \* per slot: restarts (or starts) invoked by checkHealth
    ticksLeft,        \* firings of the health interval still to be explored
    crashesLeft,      \* unsignalled worker exits still to be explored
    stopDone,         \* ChainlinkSupervisor.stop() ran to completion
    pollsLeft,        \* firings of the discovery interval still to be explored
    db,               \* rows of chainlink_registry_flags.data_feed (active feeds)
    discoveredAggregators,  \* AggregatorDiscovery.discoveredAggregators: per key
                            \* the discoveredAt of its value
    pollAggs,         \* the aggregators argument of the reconfiguration in flight
    config,           \* text of the aggregators app's ponder.config.ts
    backups,          \* texts of the ponder.config.backup.<timestamp>.ts files
    now,              \* the clock read by new Date() / Date.now()
    currentConfig,    \* the text read by the latest updateAggregatorConfig
    pollRun,          \* what the latest run of pollForNewAggregators has done
    cycles,           \* the discovery cycles made by DiscoveryCycle: when, whether
                      \* the query succeeded, the keys of the returned records
    validation,       \* the latest validateGeneratedConfig() of the supervisor:
                      \* "none", "passed", "rejected", "unreadable" (readFile threw)
    generatedSchemaName,  \* the field of the registry's ConfigGenerator
    monitor,          \* PonderMonitor.startMonitoring: the closure's flag, the
                      \* interval, the status requests in flight, the server's
                      \* answer, and the calls of onChainsReady made so far
    route,            \* a request to GET /quote (the feeds of its chain, the two
                      \* tokens, maxHops) and the result of findShortestRoute
    impl,             \* the file whose ChainlinkSupervisor is running
    elapsed,          \* Date.now() - startTime of the wait loop in progress
    readyBy           \* the response on which waitForFlagsIndexerReady returned

fileVars == <<config, backups, now>>
runVars == <<currentConfig, pollRun, cycles, validation, generatedSchemaName,
            route, monitor>>
waitVars == <<impl, elapsed, readyBy>>
vars == <<maxRetries, isRunning, healthTimer, discoveryTimer, exited, processes,
          processInfo, child, waiters, tasks, restartsInvoked, ticksLeft,
          crashesLeft, stopDone, pollsLeft, db, discoveredAggregators, pollAggs,
          config, backups, now, currentConfig, pollRun, cycles, validation,
          generatedSchemaName, route, monitor, impl, elapsed,
          readyBy>>

(* ------------------------------ values -------------------------------- *)
NoChild == [used |-> FALSE, slot |-> <<"none", "none">>, alive |-> FALSE, killed |-> FALSE,
            exitCode |-> FALSE, term |-> FALSE, kill9 |-> FALSE, termAge |-> 0]
NoInfo == [pid |-> 0, status |-> "none", startedAt |-> 0, restarts |-> 0]
IdleTask == [pc |-> "idle", step |-> 0, child |-> 0,
             snap |-> [s \in Slots |-> [running |-> TRUE, restarts |-> 0]],
             before |-> 0]

\* a run of pollForNewAggregators: the lower bound and the result size of
\* its incremental discovery (-1: none made), whether its full discovery
\* failed, whether it wrote the configuration and called restartAll
\* a response of fetch(): kind "http" with its status and whether the body
\* includes "not complete", or kind "error" when the promise rejects
NoResp == [kind |-> "none", status |-> 0, notComplete |-> FALSE]

NoRun == [since |-> 0, delta |-> -1, failed |-> FALSE, wrote |-> FALSE,
          restarted |-> FALSE]

ChildIds == 1..MaxChildren

\* The four checks of checkHealth, in program order.
HealthStep(j) ==
    CASE j = 1 -> <<"flags", "indexer">>
      [] j = 2 -> <<"flags", "server">>
      [] j = 3 -> <<"aggregators", "indexer">>
      [] OTHER -> <<"aggregators", "server">>

(* ------------------ the state the operators transform ------------------ *)
Cur == [ok |-> TRUE, processes |-> processes, processInfo |-> processInfo,
        child |-> child, waiters |-> waiters, tasks |-> tasks,
        invoked |-> restartsInvoked, isRunning |-> isRunning,
        healthTimer |-> healthTimer, discoveryTimer |-> discoveryTimer,
        exited |-> exited, stopDone |-> stopDone]

Commit(st) ==
    /\ st.ok
    /\ processes' = st.processes
    /\ processInfo' = st.processInfo
    /\ child' = st.child
    /\ waiters' = st.waiters
    /\ tasks' = st.tasks
    /\ restartsInvoked' = st.invoked
    /\ isRunning' = st.isRunning
    /\ healthTimer' = st.healthTimer
    /\ discoveryTimer' = st.discoveryTimer
    /\ exited' = st.exited
    /\ stopDone' = st.stopDone

(* --------------------------- ProcessManager ---------------------------- *)
\* isProcessRunning(processType)
isProcessRunning(st, s) ==
    /\ st.processes[s] # 0
    /\ st.processInfo[s] # NoInfo
    /\ st.processInfo[s].status = "running"
    /\ ~st.child[st.processes[s]].killed

\* getHealthStatus(): running, uptime and restarts of every role
getHealthStatus(st) ==
    [s \in Slots |->
        [running |-> isProcessRunning(st, s),
         uptime |-> IF st.processInfo[s] # NoInfo
                    THEN now - st.processInfo[s].startedAt ELSE 0,
         restarts |-> IF st.processInfo[s] # NoInfo
                      THEN st.processInfo[s].restarts ELSE 0]]

\* ChildProcess.kill(signal): a signal reaches only a child that has not exited
KillChild(ch, c, sig) ==
    IF ch[c].alive
    THEN [ch EXCEPT ![c].killed = TRUE,
                    ![c].term = IF sig = "SIGTERM" THEN TRUE ELSE @,
                    ![c].kill9 = IF sig = "SIGKILL" THEN TRUE ELSE @]
    ELSE ch

\* startIndexer / startServer up to the 2-second settle wait of task t
StartProc(st, t, s) ==
    IF ~\E i \in ChildIds : ~st.child[i].used THEN [st EXCEPT !.ok = FALSE]
    ELSE LET c == CHOOSE i \in ChildIds :
                     /\ ~st.child[i].used
                     /\ \A j \in ChildIds : j < i => st.child[j].used
         IN
         [st EXCEPT
            !.child[c] = [used |-> TRUE, slot |-> s, alive |-> TRUE,
                          killed |-> FALSE, exitCode |-> FALSE,
                          term |-> FALSE, kill9 |-> FALSE, termAge |-> 0],
            !.processes[s] = c,
            !.processInfo[s] = [pid |-> c, status |-> "running",
                                startedAt |-> now,
                                restarts |-> 0],
            !.tasks[t].pc = "settle",
            !.tasks[t].child = c]

\* the settle check: childProcess.killed || childProcess.exitCode !== null
SettleFailed(st, c) == st.child[c].killed \/ st.child[c].exitCode

\* stopProcess up to its await: SIGTERM, arm the 10 s timer, listen for exit
StopProc(st, t, s) ==
    IF st.processes[s] = 0 \/ st.processInfo[s] = NoInfo THEN st
    ELSE LET c == st.processes[s] IN
         [st EXCEPT
            !.child = KillChild(st.child, c, "SIGTERM"),
            !.waiters = @ \cup {[task |-> t, slot |-> s, child |-> c,
                                  left |-> TimerTicks(StopTimeoutMs)]}]

\* stopProcess after its await: both map entries of the role are deleted
DeleteEntries(st, s) ==
    [st EXCEPT !.processes[s] = 0, !.processInfo[s] = NoInfo]

\* the 'exit' and 'error' listeners registered by startIndexer and
\* startServer: both maps lose the entry of the role (a mutant keeps the
\* ChildProcess)
ExitHandlerKeeps(st, s) == [st EXCEPT !.processInfo[s] = NoInfo]
ExitHandler(st, s) == DeleteEntries(st, s)

TaskWaits(st, t) == \E w \in st.waiters : w.task = t

(* --------------------------- configuration text ------------------------ *)
(* ponder.config.ts as a sequence of tokens.  A token is a piece of text   *)
(* that the code treats as a unit:                                         *)
(*   ob, cb   the characters { and }                                       *)
(*   q        a quote character (' " or `) without a partner in its token  *)
(*   esc      a backslash                                                  *)
(*   entry    `export default createConfig(`, followed by ob               *)
(*   sec      `AccessControlledOffchainAggregator: `, followed by ob       *)
(*   abi      the identifier AccessControlledOffchainAggregatorAbi         *)
(*   gen      the line `// Generated at: <v[1]>`                           *)
(*   name     a chain name and `: `;  addrs  `address: ["a", "b"],`        *)
(*   sb       `startBlock: <v[1]>,`;  txt  any other text without braces   *)
(* Chain names and addresses are numbered in their lexicographic order:    *)
(* base = 1, ethereum = 2;  0xaa = 1, 0xbb = 2, 0xcc = 3.                  *)
Tok(k) == [k |-> k, v |-> <<>>]
TokV(k, v) == [k |-> k, v |-> v]

base == 1
ethereum == 2

\* getChainIdToNameMapping(); 0 stands for undefined
chainIdToName(id) ==
    CASE id = 1 -> ethereum
      [] id = 8453 -> base
      [] OTHER -> 0

\* getStartBlockForChain(chainName)
getStartBlockForChain(c) ==
    CASE c = ethereum -> 22031347
      [] c = base -> 27544881
      [] OTHER -> 1000000

RECURSIVE Insert(_, _)
Insert(x, sorted) ==
    IF sorted = <<>> THEN <<x>>
    ELSE IF x <= Head(sorted) THEN <<x>> \o sorted
    ELSE <<Head(sorted)>> \o Insert(x, Tail(sorted))

\* Array.prototype.sort() on strings, on the numbering above
RECURSIVE Sort(_)
Sort(seq) == IF seq = <<>> THEN <<>> ELSE Insert(Head(seq), Sort(Tail(seq)))

\* Object.keys(groupAggregatorsByChain(aggregators)): chains in first-seen order
RECURSIVE GroupKeys(_)
GroupKeys(aggs) ==
    IF aggs = <<>> THEN <<>>
    ELSE LET rest == GroupKeys(SubSeq(aggs, 1, Len(aggs) - 1))
             c == aggs[Len(aggs)].chainName
         IN  IF \E i \in 1..Len(rest) : rest[i] = c THEN rest ELSE Append(rest, c)

\* groupAggregatorsByChain(aggregators)[chainName], as addresses
RECURSIVE GroupOf(_, _)
GroupOf(aggs, c) ==
    IF aggs = <<>> THEN <<>>
    ELSE IF Head(aggs).chainName = c
         THEN <<Head(aggs).address>> \o GroupOf(Tail(aggs), c)
         ELSE GroupOf(Tail(aggs), c)

\* generateAggregatorContracts: chains sorted, addresses sorted
RECURSIVE RenderChains(_, _)
RenderChains(aggs, chains) ==
    IF chains = <<>> THEN <<>>
    ELSE LET c == Head(chains)
         IN  <<TokV("name", <<c>>), Tok("ob"),
               TokV("addrs", Sort(GroupOf(aggs, c))),
               TokV("sb", <<getStartBlockForChain(c)>>), Tok("cb")>>
             \o RenderChains(aggs, Tail(chains))

\* (a mutant renders the chains in the order of Object.keys)
generateAggregatorContractsUnsorted(aggs) == RenderChains(aggs, GroupKeys(aggs))
generateAggregatorContracts(aggs) == RenderChains(aggs, Sort(GroupKeys(aggs)))

\* the match of /AccessControlledOffchainAggregator: \{/; 0 if there is none
SectionStart(text) ==
    IF \E i \in 1..(Len(text) - 1) : text[i].k = "sec" /\ text[i + 1].k = "ob"
    THEN CHOOSE i \in 1..(Len(text) - 1) :
            /\ text[i].k = "sec" /\ text[i + 1].k = "ob"
            /\ \A j \in 1..(i - 1) : ~(text[j].k = "sec" /\ text[j + 1].k = "ob")
    ELSE 0

\* the brace-counting loop of buildConfigWithAggregators: the index after the
\* closing brace, or the start index when the loop runs off the end
RECURSIVE ScanEnd(_, _, _, _, _, _)
ScanEnd(text, start, i, braceCount, inString, escapeNext) ==
    IF i > Len(text) THEN start
    ELSE LET k == text[i].k IN
         IF escapeNext THEN ScanEnd(text, start, i + 1, braceCount, inString, FALSE)
         ELSE IF k = "esc" THEN ScanEnd(text, start, i + 1, braceCount, inString, TRUE)
         ELSE IF k = "q" THEN ScanEnd(text, start, i + 1, braceCount, ~inString, FALSE)
         ELSE IF ~inString /\ k = "ob"
              THEN ScanEnd(text, start, i + 1, braceCount + 1, inString, FALSE)
         ELSE IF ~inString /\ k = "cb"
              THEN IF braceCount - 1 = 0 THEN i + 1
                   ELSE ScanEnd(text, start, i + 1, braceCount - 1, inString, FALSE)
         ELSE ScanEnd(text, start, i + 1, braceCount, inString, FALSE)

\* the section rendered by buildConfigWithAggregators
NewSection(aggs, ts) ==
    <<Tok("sec"), Tok("ob"), TokV("gen", <<ts>>), Tok("abi"), Tok("txt"), Tok("ob")>>
    \o generateAggregatorContracts(aggs)
    \o <<Tok("cb"), Tok("cb")>>

\* buildConfigWithAggregators(originalConfig, aggregatorsByChain); it throws
\* when the section is missing, which CanBuild tells
CanBuild(text) == SectionStart(text) # 0
\* (a mutant puts the new section in front of the old one)
buildConfigWithAggregatorsKeeps(text, aggs, ts) ==
    LET start == SectionStart(text)
    IN  SubSeq(text, 1, start - 1) \o NewSection(aggs, ts)
        \o SubSeq(text, start, Len(text))
buildConfigWithAggregators(text, aggs, ts) ==
    LET start == SectionStart(text)
        end == ScanEnd(text, start, start, 0, FALSE, FALSE)
    IN  SubSeq(text, 1, start - 1) \o NewSection(aggs, ts)
        \o SubSeq(text, end, Len(text))

CountTok(text, k) == Cardinality({i \in 1..Len(text) : text[i].k = k})

\* validateGeneratedConfig() on the text of the configuration file (a mutant
\* does not count the braces)
validateGeneratedConfigNoCount(text) ==
    /\ \E i \in 1..(Len(text) - 1) : text[i].k = "entry" /\ text[i + 1].k = "ob"
    /\ \E i \in 1..Len(text) : text[i].k = "abi"
validateGeneratedConfig(text) ==
    /\ \E i \in 1..(Len(text) - 1) : text[i].k = "entry" /\ text[i + 1].k = "ob"
    /\ \E i \in 1..Len(text) : text[i].k = "abi"
    /\ CountTok(text, "ob") = CountTok(text, "cb")

\* getLastConfigGeneration(): the first `// Generated at:` line; 0 for null
getLastConfigGeneration(text) ==
    IF \E i \in 1..Len(text) : text[i].k = "gen"
    THEN LET i == CHOOSE x \in 1..Len(text) :
                     text[x].k = "gen" /\ \A y \in 1..(x - 1) : text[y].k # "gen"
         IN  text[i].v[1]
    ELSE 0

\* import { AccessControlledOffchainAggregatorAbi } ...;
\* export default createConfig({ contracts: { ChainLinkDataFeedFlags: {...},
\*   AccessControlledOffchainAggregator: { abi: ..., chain: {} } } });
PlainConfig ==
    <<Tok("ob"), Tok("abi"), Tok("cb"), Tok("entry"), Tok("ob"), Tok("txt"),
      Tok("ob"), Tok("txt"), Tok("ob"), Tok("cb"),
      Tok("sec"), Tok("ob"), Tok("abi"), Tok("txt"), Tok("ob"), Tok("cb"),
      Tok("cb"), Tok("cb"), Tok("cb")>>

\* a configuration with an apostrophe in a comment of the aggregator chain
\* block and another in the flags block that follows it
ApostropheConfig ==
    <<Tok("ob"), Tok("abi"), Tok("cb"), Tok("entry"), Tok("ob"), Tok("txt"),
      Tok("ob"),
      Tok("sec"), Tok("ob"), Tok("abi"), Tok("txt"), Tok("ob"), Tok("q"),
      Tok("cb"), Tok("cb"),
      Tok("txt"), Tok("ob"), Tok("q"), Tok("cb"),
      Tok("cb"), Tok("cb")>>

(* ------------------------- ChainlinkSupervisor ------------------------- *)
\* the guard of checkHealth (a mutant compares with <=)
NeedsRestartLeq(h) == ~h.running /\ h.restarts <= maxRetries
NeedsRestart(h) == ~h.running /\ h.restarts < maxRetries

\* restartIndexer up to its first await that yields to the event loop
restartIndexer(st, t, m) ==
    LET s == <<m, "indexer">>
        st0 == [st EXCEPT !.tasks[t].before = getHealthStatus(st)[s].restarts]
        st1 == IF st0.processInfo[s] # NoInfo
               THEN [st0 EXCEPT !.processInfo[s].status = "restarting",
                                !.processInfo[s].restarts = @ + 1]
               ELSE st0
        st2 == StopProc(st1, t, s)
    IN  IF TaskWaits(st2, t)
        THEN [st2 EXCEPT !.tasks[t].pc = "stopwait"]
        ELSE [st2 EXCEPT !.tasks[t].pc = "delay"]

\* restartAll up to its first await that yields: stopAll signals both roles
restartAllEveryApp(st, t, m) ==
    LET st1 == StopProc(StopProc(st, t, <<"flags", "indexer">>), t, <<m, "indexer">>)
        st2 == StopProc(st1, t, <<m, "server">>)
        st3 == [st2 EXCEPT !.tasks[t].step = 1]
    IN  IF TaskWaits(st3, t)
        THEN [st3 EXCEPT !.tasks[t].pc = "stopwait"]
        ELSE [st3 EXCEPT !.tasks[t].pc = "delay"]
restartAll(st, t, m) ==
    LET st1 == StopProc(st, t, <<m, "indexer">>)
        st2 == StopProc(st1, t, <<m, "server">>)
        st3 == [st2 EXCEPT !.tasks[t].step = 1]
    IN  IF TaskWaits(st3, t)
        THEN [st3 EXCEPT !.tasks[t].pc = "stopwait"]
        ELSE [st3 EXCEPT !.tasks[t].pc = "delay"]

\* checkHealth from its k-th check on, up to the next await that yields
RECURSIVE HealthContinue(_, _, _)
HealthContinue(st, t, k) ==
    IF k > 4 THEN [st EXCEPT !.tasks[t] = [IdleTask EXCEPT !.snap = st.tasks[t].snap]]
    ELSE LET s == HealthStep(k) IN
         IF ~NeedsRestart(st.tasks[t].snap[s])
         THEN HealthContinue(st, t, k + 1)
         ELSE LET st1 == [st EXCEPT !.invoked[s] = @ + 1,
                                    !.tasks[t].step = k,
                                    !.tasks[t].child = 0]
              IN  IF s[2] = "indexer"
                  THEN restartIndexer(st1, t, s[1])
                  ELSE StartProc(st1, t, s)

\* checkHealth: both getHealthStatus snapshots are taken first (flagsHealth
\* and aggregatorsHealth, of which it reads running and restarts)
checkHealth(st, t) ==
    HealthContinue(
        [st EXCEPT !.tasks[t].snap =
            [s \in Slots |-> [running |-> getHealthStatus(st)[s].running,
                              restarts |-> getHealthStatus(st)[s].restarts]]],
        t, 1)

\* stop() has awaited every stopAll; main() then calls process.exit
StopFinished(st) ==
    [st EXCEPT !.stopDone = TRUE,
               !.exited = IF st.tasks["stop"].step = 0 THEN 1 ELSE 2,
               !.tasks["stop"].pc = "done"]

\* the continuation of a task whose stopProcess calls have all resolved
AfterStop(st, t) ==
    IF t = "stop" THEN StopFinished(st)
    ELSE IF t = "boot" /\ st.tasks[t].step = 3
         THEN [st EXCEPT !.tasks[t].pc = "activate"]
    ELSE [st EXCEPT !.tasks[t].pc = "delay"]

\* a stopProcess promise resolves: entries deleted, the caller may go on
ResolveWaiter(st, w) ==
    LET st1 == DeleteEntries([st EXCEPT !.waiters = @ \ {w}], w.slot)
    IN  IF TaskWaits(st1, w.task) THEN st1 ELSE AfterStop(st1, w.task)

RECURSIVE ResolveAll(_, _)
ResolveAll(st, W) ==
    IF W = {} THEN st
    ELSE LET w == CHOOSE x \in W : TRUE
         IN  ResolveAll(ResolveWaiter(st, w), W \ {w})

\* ChainlinkSupervisor.stop() with isRunning true, up to its await;
\* why = 0: called by the signal handler, 1: by the catch of start()
SupervisorStop(st, why) ==
    LET st0 == [st EXCEPT !.isRunning = FALSE,
                          !.healthTimer = FALSE,
                          !.discoveryTimer = FALSE,
                          !.tasks["stop"] = [IdleTask EXCEPT !.pc = "stopwait",
                                                             !.step = why]]
        st1 == StopProc(st0, "stop", <<"flags", "indexer">>)
        st2 == StopProc(st1, "stop", <<"flags", "server">>)
        st3 == StopProc(st2, "stop", <<"aggregators", "indexer">>)
        st4 == StopProc(st3, "stop", <<"aggregators", "server">>)
    IN  IF TaskWaits(st4, "stop") THEN st4 ELSE StopFinished(st4)

\* the catch block of start(): await this.stop(); throw error (a mutant
\* rethrows without the stop)
BootFailNoStop(st) == [st EXCEPT !.tasks["boot"].pc = "failed", !.exited = 2]
BootFail(st) ==
    LET st0 == [st EXCEPT !.tasks["boot"].pc = "failed"]
    IN  IF st0.isRunning THEN SupervisorStop(st0, 1)
        ELSE [st0 EXCEPT !.exited = 2]

\* child records nobody can observe any more are dropped
Collect(st) ==
    [st EXCEPT !.child = [i \in ChildIds |->
        IF /\ st.child[i].used
           /\ ~st.child[i].alive
           /\ ~\E t \in TaskIds : st.tasks[t].pc = "settle" /\ st.tasks[t].child = i
        THEN NoChild ELSE st.child[i]]]

(* ----------------------- AggregatorDiscovery --------------------------- *)
\* the rows of the query that discoverFromDatabase turns into aggregators:
\* those of a known chain, in the order of the result
RECURSIVE Aggregators(_)
Aggregators(rows) ==
    IF rows = <<>> THEN <<>>
    ELSE LET r == Head(rows) IN
         IF chainIdToName(r.chain_id) = 0 THEN Aggregators(Tail(rows))
         ELSE <<[chainId |-> r.chain_id, chainName |-> chainIdToName(r.chain_id),
                 address |-> r.aggregator_address]>> \o Aggregators(Tail(rows))

\* the keys `${chain_id}-${aggregator_address}` set by discoverFromDatabase
AggregatorKeys(aggs) == {<<aggs[i].chainId, aggs[i].address>> : i \in 1..Len(aggs)}

\* this.discoveredAggregators.set(key, aggregatorInfo) for every record of
\* the list, in its order, with discoveredAt = ts (a mutant keeps the value
\* that a key already has)
MapSetKeep(map, aggs, ts) ==
    map \cup {[key |-> k, discoveredAt |-> ts] :
                k \in {x \in AggregatorKeys(aggs) : \A e \in map : e.key # x}}
MapSet(map, aggs, ts) ==
    {e \in map : e.key \notin AggregatorKeys(aggs)}
        \cup {[key |-> k, discoveredAt |-> ts] : k \in AggregatorKeys(aggs)}

\* discoverFromDatabase(): the list it returns and the map it leaves, when
\* connect and query succeed (ok) and when one of them throws (a mutant
\* clears the map in the catch block)
discoverFromDatabaseClears(map, rows, ok, ts) ==
    IF ok THEN [aggregators |-> Aggregators(rows),
                map |-> MapSet(map, Aggregators(rows), ts)]
    ELSE [aggregators |-> <<>>, map |-> {}]
discoverFromDatabase(map, rows, ok, ts) ==
    IF ok THEN [aggregators |-> Aggregators(rows),
                map |-> MapSet(map, Aggregators(rows), ts)]
    ELSE [aggregators |-> <<>>, map |-> map]

\* getStats(): the number of values of the map
getStats(map) == [total |-> Cardinality(map)]

\* pollForNewAggregators() up to its first await
StartPoll(st) == [st EXCEPT !.tasks["poll"].pc = "query"]

\* rows of the data_feed table; Feed: a row created before the start
FeedAt(c, a, ts) == [chain_id |-> c, aggregator_address |-> a, created_at |-> ts]
Feed(c, a) == FeedAt(c, a, 0)

\* the rows created after `since`
RECURSIVE CreatedAfter(_, _)
CreatedAfter(rows, since) ==
    IF rows = <<>> THEN <<>>
    ELSE IF Head(rows).created_at > since
         THEN <<Head(rows)>> \o CreatedAfter(Tail(rows), since)
         ELSE CreatedAfter(Tail(rows), since)

\* pollForNewAggregators: newAggregators.length >= 3 (a mutant requires more)
Threshold == 3
MeetsThresholdGt(n) == n > Threshold
MeetsThreshold(n) == n >= Threshold

\* `return null` of findShortestRoute
NullRoute == [path |-> <<>>, conversions |-> <<>>, hops |-> -1]

\* no request
NoRequest == [feeds |-> <<>>, fromToken |-> 0, toToken |-> 0, maxHops |-> 0,
              answered |-> FALSE, result |-> NullRoute]

(* ------------------------------ actions -------------------------------- *)
pollVars == <<pollsLeft, db, discoveredAggregators, pollAggs>>

InitProcesses ==
    /\ isRunning = FALSE
    /\ healthTimer = FALSE
    /\ discoveryTimer = FALSE
    /\ exited = 0
    /\ processes = [s \in Slots |-> 0]
    /\ processInfo = [s \in Slots |-> NoInfo]
    /\ child = [i \in ChildIds |-> NoChild]
    /\ waiters = {}
    /\ tasks = [t \in TaskIds |-> IdleTask]
    /\ restartsInvoked = [s \in Slots |-> 0]
    /\ stopDone = FALSE
    /\ discoveredAggregators = {}
    /\ backups = {}
    /\ now = 1
    /\ currentConfig = <<>>
    /\ pollRun = NoRun
    /\ cycles = <<>>
    /\ validation = "none"
    /\ generatedSchemaName = [chainCount |-> 0, totalAggregators |-> 0,
                              shortHash |-> <<>>]
    /\ elapsed = 0
    /\ readyBy = NoResp
    /\ monitor = [started |-> FALSE, hasCalledCallback |-> FALSE,
                  intervalId |-> FALSE, pending |-> 0, status |-> {},
                  lastKnownStatus |-> {}, calls |-> <<>>,
                  checksLeft |-> MaxChecks]

\* workers that crash, the health timer, and a discovery that finds one feed
Init ==
    /\ InitProcesses
    /\ route = [NoRequest EXCEPT !.answered = TRUE]
    /\ pollAggs = <<>>
    /\ impl = "index.ts"
    /\ maxRetries \in 0..MaxRetriesCfg
    /\ ticksLeft = MaxHealthTicks
    /\ crashesLeft = MaxCrashes
    /\ pollsLeft = MaxPolls
    /\ db = <<Feed(1, 1)>>
    /\ config = PlainConfig

\* two data feeds of one chain share their aggregator: the discovery
\* reconfigures the aggregators app while the health timer runs
InitReconf ==
    /\ InitProcesses
    /\ route = [NoRequest EXCEPT !.answered = TRUE]
    /\ pollAggs = <<>>
    /\ impl = "index.ts"
    /\ maxRetries \in 1..MaxRetriesCfg
    /\ ticksLeft = ReconfHealthTicks
    /\ crashesLeft = ReconfCrashes
    /\ pollsLeft = ReconfPolls
    /\ db = <<Feed(1, 1), Feed(1, 1)>>
    /\ config = PlainConfig

\* the same, and a termination signal arrives at some moment
InitStop ==
    /\ InitProcesses
    /\ route = [NoRequest EXCEPT !.answered = TRUE]
    /\ pollAggs = <<>>
    /\ impl = "index.ts"
    /\ maxRetries \in 1..MaxRetriesCfg
    /\ ticksLeft = StopHealthTicks
    /\ crashesLeft = 0
    /\ pollsLeft = 0
    /\ db = <<Feed(1, 1), Feed(1, 1)>>
    /\ config = PlainConfig

\* main() calls supervisor.start(): isRunning = true, startFlagsProcess
Start ==
    /\ exited = 0
    /\ ~isRunning
    /\ tasks["boot"].pc = "idle"
    /\ Commit(StartProc([Cur EXCEPT !.isRunning = TRUE,
                                    !.tasks["boot"].step = 1],
                        "boot", <<"flags", "indexer">>))
    /\ UNCHANGED <<maxRetries, waitVars, ticksLeft, crashesLeft, pollVars, fileVars, runVars>>

\* the settle check of a start made by start(), and what start() does next:
\* the next start, or startDiscoveryPolling() and startHealthMonitoring()
BootSettle ==
    /\ exited = 0
    /\ tasks["boot"].pc = "settle"
    /\ LET k == tasks["boot"].step
           failed == SettleFailed(Cur, tasks["boot"].child)
           st0 == [Cur EXCEPT !.tasks["boot"].child = 0,
                              !.tasks["boot"].step = k + 1]
       IN  Commit(Collect(
             IF k \in {1, 3} /\ failed THEN BootFail(st0)
             ELSE IF k < 4 THEN StartProc(st0, "boot", HealthStep(k + 1))
             ELSE checkHealth(StartPoll([st0 EXCEPT !.tasks["boot"].pc = "done",
                                                    !.discoveryTimer = TRUE,
                                                    !.healthTimer = TRUE]),
                              "health")))
    /\ UNCHANGED <<maxRetries, waitVars, ticksLeft, crashesLeft, pollVars, fileVars, runVars>>

\* the health interval fires: one more run of checkHealth
HealthTick ==
    /\ exited = 0
    /\ healthTimer
    /\ ticksLeft > 0
    /\ tasks["health"].pc = "idle"
    /\ Commit(checkHealth(Cur, "health"))
    /\ ticksLeft' = ticksLeft - 1
    /\ UNCHANGED <<maxRetries, waitVars, crashesLeft, pollVars, fileVars, runVars>>

\* the 5-second delay of restartIndexer is over: startIndexer
HealthDelayDone ==
    /\ exited = 0
    /\ tasks["health"].pc = "delay"
    /\ Commit(StartProc(Cur, "health", HealthStep(tasks["health"].step)))
    /\ UNCHANGED <<maxRetries, waitVars, ticksLeft, crashesLeft, pollVars, fileVars, runVars>>

\* the settle check of a start made by checkHealth; its result is dropped
HealthSettle ==
    /\ exited = 0
    /\ tasks["health"].pc = "settle"
    /\ Commit(Collect(HealthContinue([Cur EXCEPT !.tasks["health"].pc = "run"],
                                     "health", tasks["health"].step + 1)))
    /\ UNCHANGED <<maxRetries, waitVars, ticksLeft, crashesLeft, pollVars, fileVars, runVars>>

\* the discovery interval fires: one more run of pollForNewAggregators
PollTick ==
    /\ exited = 0
    /\ discoveryTimer
    /\ pollsLeft > 0
    /\ tasks["poll"].pc = "idle"
    /\ Commit(StartPoll(Cur))
    /\ pollsLeft' = pollsLeft - 1
    /\ UNCHANGED <<maxRetries, waitVars, ticksLeft, crashesLeft, db, discoveredAggregators,
                   pollAggs, fileVars, runVars>>

\* the query of discoverFromDatabase returns (ok) or fails; the comparison of
\* pollForNewAggregators; updateAggregatorsConfig up to its first await
PollQuery(ok) ==
    /\ exited = 0
    /\ tasks["poll"].pc = "query"
    /\ LET found == discoverFromDatabase(discoveredAggregators, db, ok, now)
           newAggregators == found.aggregators
           known == found.map
       IN  /\ discoveredAggregators' = known
           /\ IF Len(newAggregators) > Cardinality(known)
              THEN /\ pollAggs' = newAggregators
                   /\ Commit([Cur EXCEPT !.tasks["poll"].pc = "backup"])
              ELSE /\ pollAggs' = <<>>
                   /\ Commit([Cur EXCEPT !.tasks["poll"] = IdleTask])
    /\ UNCHANGED <<maxRetries, waitVars, ticksLeft, crashesLeft, pollsLeft, db, fileVars, runVars>>

\* backupCurrentConfig(): the configuration file is copied to a backup file
PollBackup ==
    /\ exited = 0
    /\ tasks["poll"].pc = "backup"
    /\ backups' = backups \cup {config}
    /\ Commit([Cur EXCEPT !.tasks["poll"].pc = "update"])
    /\ UNCHANGED <<maxRetries, waitVars, ticksLeft, crashesLeft, pollVars, config, now,
                   runVars>>

\* updateAggregatorConfig(aggregators): read, rebuild, write; an error of
\* buildConfigWithAggregators ends updateAggregatorsConfig in its catch
PollUpdate ==
    /\ exited = 0
    /\ tasks["poll"].pc = "update"
    /\ IF CanBuild(config)
       THEN /\ config' = buildConfigWithAggregators(config, pollAggs, now)
            /\ now' = now + 1
            /\ pollAggs' = pollAggs
            /\ Commit([Cur EXCEPT !.tasks["poll"].pc = "validate"])
       ELSE /\ UNCHANGED <<config, now>>
            /\ pollAggs' = <<>>
            /\ Commit([Cur EXCEPT !.tasks["poll"] = IdleTask])
    /\ currentConfig' = config
    /\ UNCHANGED <<maxRetries, waitVars, ticksLeft, crashesLeft, pollsLeft, db,
                   discoveredAggregators, backups, pollRun, cycles, validation,
                   generatedSchemaName, route, monitor>>

\* validateGeneratedConfig(), then restartAll() of the aggregators manager
PollValidate ==
    /\ exited = 0
    /\ tasks["poll"].pc = "validate"
    /\ pollAggs' = <<>>
    /\ IF validateGeneratedConfig(config)
       THEN Commit(restartAll(Cur, "poll", "aggregators"))
       ELSE Commit([Cur EXCEPT !.tasks["poll"] = IdleTask])
    /\ UNCHANGED <<maxRetries, waitVars, ticksLeft, crashesLeft, pollsLeft, db,
                   discoveredAggregators, fileVars, runVars>>

\* the 5-second delay of restartAll is over: startIndexer
PollDelayDone ==
    /\ exited = 0
    /\ tasks["poll"].pc = "delay"
    /\ Commit(StartProc(Cur, "poll", <<"aggregators", "indexer">>))
    /\ UNCHANGED <<maxRetries, waitVars, ticksLeft, crashesLeft, pollVars, fileVars, runVars>>

\* the settle check of a start made by restartAll: startServer, or the end
PollSettle ==
    /\ exited = 0
    /\ tasks["poll"].pc = "settle"
    /\ Commit(Collect(
         IF tasks["poll"].step = 1
         THEN StartProc([Cur EXCEPT !.tasks["poll"].step = 2], "poll",
                        <<"aggregators", "server">>)
         ELSE [Cur EXCEPT !.tasks["poll"] = IdleTask]))
    /\ UNCHANGED <<maxRetries, waitVars, ticksLeft, crashesLeft, pollVars, fileVars, runVars>>

\* one grace window of time passes
Tick ==
    /\ exited = 0
    /\ \/ \E w \in waiters : w.left > 0
       \/ \E c \in ChildIds : /\ child[c].alive /\ child[c].term
                              /\ child[c].termAge < TimerTicks(GraceWindowMs)
    /\ waiters' = {[w EXCEPT !.left = IF @ > 0 THEN @ - 1 ELSE 0] : w \in waiters}
    /\ child' = [c \in ChildIds |->
                   IF /\ child[c].alive /\ child[c].term
                      /\ child[c].termAge < TimerTicks(GraceWindowMs)
                   THEN [child[c] EXCEPT !.termAge = @ + 1]
                   ELSE child[c]]
    /\ UNCHANGED <<maxRetries, waitVars, isRunning, healthTimer, discoveryTimer, exited,
                   processes, processInfo, tasks, restartsInvoked, stopDone,
                   ticksLeft, crashesLeft, pollVars, fileVars, runVars>>

\* the 10-second timer of a stopProcess fires: SIGKILL, resolve
GraceTimeout(w) ==
    /\ exited = 0
    /\ w \in waiters
    /\ w.left = 0
    /\ Commit(ResolveWaiter([Cur EXCEPT !.child = KillChild(@, w.child, "SIGKILL")], w))
    /\ UNCHANGED <<maxRetries, waitVars, ticksLeft, crashesLeft, pollVars, fileVars, runVars>>

\* a worker exits; the 'exit' listeners of start and of stopProcess run
ChildExit(c, code) ==
    /\ exited = 0
    /\ child[c].used /\ child[c].alive
    /\ (child[c].kill9 => ~code)
    /\ IF child[c].term \/ child[c].kill9
       THEN crashesLeft' = crashesLeft
       ELSE crashesLeft > 0 /\ crashesLeft' = crashesLeft - 1
    /\ LET st1 == [Cur EXCEPT !.child[c].alive = FALSE,
                              !.child[c].exitCode = code]
       IN  Commit(Collect(ResolveAll(ExitHandler(st1, child[c].slot),
                                      {w \in waiters : w.child = c})))
    /\ UNCHANGED <<maxRetries, waitVars, ticksLeft, pollVars, fileVars, runVars>>

\* the spawn of a worker fails: the child emits 'error' and no 'exit', its
\* exitCode is set; this happens before the settle check of its start
ChildError(c) ==
    /\ exited = 0
    /\ child[c].used /\ child[c].alive
    /\ ~child[c].term /\ ~child[c].kill9
    /\ \E t \in TaskIds : tasks[t].pc = "settle" /\ tasks[t].child = c
    /\ crashesLeft > 0
    /\ crashesLeft' = crashesLeft - 1
    /\ Commit(ExitHandler([Cur EXCEPT !.child[c].alive = FALSE,
                                      !.child[c].exitCode = TRUE],
                          child[c].slot))
    /\ UNCHANGED <<maxRetries, waitVars, ticksLeft, pollVars, fileVars, runVars>>

\* SIGINT / SIGTERM / SIGQUIT: await supervisor.stop(); process.exit(0)
Shutdown ==
    /\ exited = 0
    /\ Commit(IF isRunning THEN SupervisorStop(Cur, 0)
              ELSE [Cur EXCEPT !.exited = 1])
    /\ UNCHANGED <<maxRetries, waitVars, ticksLeft, crashesLeft, pollVars, fileVars, runVars>>

Next ==
    \/ Start
    \/ BootSettle
    \/ HealthTick
    \/ HealthDelayDone
    \/ HealthSettle
    \/ PollTick
    \/ \E ok \in BOOLEAN : PollQuery(ok)
    \/ Tick
    \/ \E w \in waiters : GraceTimeout(w)
    \/ \E c \in ChildIds : ChildError(c)
    \/ \E c \in ChildIds, code \in BOOLEAN : ChildExit(c, code)

Spec == Init /\ [][Next]_vars

NextReconf ==
    \/ Start
    \/ BootSettle
    \/ HealthTick
    \/ HealthDelayDone
    \/ HealthSettle
    \/ PollTick
    \/ \E ok \in BOOLEAN : PollQuery(ok)
    \/ PollBackup
    \/ PollUpdate
    \/ PollValidate
    \/ PollDelayDone
    \/ PollSettle
    \/ Tick
    \/ \E w \in waiters : GraceTimeout(w)
    \/ \E c \in ChildIds, code \in BOOLEAN : ChildExit(c, code)

SpecReconf == InitReconf /\ [][NextReconf]_vars

NextStop ==
    \/ Start
    \/ BootSettle
    \/ HealthTick
    \/ HealthDelayDone
    \/ HealthSettle
    \/ \E ok \in BOOLEAN : PollQuery(ok)
    \/ PollBackup
    \/ PollUpdate
    \/ PollValidate
    \/ PollDelayDone
    \/ PollSettle
    \/ Tick
    \/ \E w \in waiters : GraceTimeout(w)
    \/ \E c \in ChildIds, code \in BOOLEAN : ChildExit(c, code)
    \/ Shutdown

SpecStop == InitStop /\ [][NextStop]_vars

(* --------- the supervisor with threshold-gated reconfiguration --------- *)
(* start(): flags indexer, readiness, discovery, configuration, aggregators *)
(* indexer; then the discovery interval alone acts on the processes.        *)

\* the end of generateAggregatorConfig without an error: start() goes on with
\* startIndexer, the discovery interval's run restarts or returns
GateGenerated(st, t, restart) ==
    IF t = "boot"
    THEN StartProc([st EXCEPT !.tasks["boot"].step = 3], "boot",
                   <<"aggregators", "indexer">>)
    ELSE IF restart THEN restartAll(st, "poll", "aggregators")
    ELSE [st EXCEPT !.tasks["poll"] = IdleTask]

\* the catch block of generateAggregatorConfig: rethrown to start() when
\* shouldRestart is false, logged otherwise (a mutant restarts all the same)
GateFailedRestarts(st, t) ==
    IF t = "boot" THEN BootFail(st)
    ELSE restartAll(st, "poll", "aggregators")
GateFailed(st, t) ==
    IF t = "boot" THEN BootFail(st)
    ELSE [st EXCEPT !.tasks["poll"] = IdleTask]

GateTasks == {"boot", "poll"}

\* start(): isRunning = true, startFlagsProcess
GateStart ==
    /\ exited = 0
    /\ ~isRunning
    /\ tasks["boot"].pc = "idle"
    /\ Commit(StartProc([Cur EXCEPT !.isRunning = TRUE,
                                    !.tasks["boot"].step = 1],
                        "boot", <<"flags", "indexer">>))
    /\ UNCHANGED <<maxRetries, waitVars, ticksLeft, crashesLeft, pollVars, fileVars, runVars>>

\* the settle check of a startIndexer made by start(): of the flags indexer
\* (then waitForFlagsIndexerReady) or of the aggregators indexer (then
\* startHealthMonitoring, which only reports, and startDiscoveryPolling)
GateBootSettle ==
    /\ exited = 0
    /\ tasks["boot"].pc = "settle"
    /\ LET failed == SettleFailed(Cur, tasks["boot"].child)
           st0 == [Cur EXCEPT !.tasks["boot"].child = 0]
       IN  Commit(Collect(
             IF failed THEN BootFail(st0)
             ELSE IF tasks["boot"].step = 1
                  THEN [st0 EXCEPT !.tasks["boot"].pc = "ready"]
                  ELSE [st0 EXCEPT !.tasks["boot"].pc = "done",
                                   !.discoveryTimer = TRUE]))
    /\ UNCHANGED <<maxRetries, waitVars, ticksLeft, crashesLeft, pollVars, fileVars, runVars>>

\* waitForFlagsIndexerReady returns, or throws after its 10 minutes
GateReady(ok) ==
    /\ exited = 0
    /\ tasks["boot"].pc = "ready"
    /\ Commit(IF ok THEN [Cur EXCEPT !.tasks["boot"].pc = "query"]
              ELSE BootFail(Cur))
    /\ UNCHANGED <<maxRetries, waitVars, ticksLeft, crashesLeft, pollVars, fileVars, runVars>>

\* runAggregatorDiscovery, then generateAggregatorConfig(aggregators) up to
\* its readFile
GateBootQuery(ok) ==
    /\ exited = 0
    /\ tasks["boot"].pc = "query"
    /\ LET found == discoverFromDatabase(discoveredAggregators, db, ok, now)
       IN  /\ discoveredAggregators' = found.map
           /\ pollAggs' = found.aggregators
    /\ Commit([Cur EXCEPT !.tasks["boot"].pc = "read", !.tasks["boot"].step = 2])
    /\ UNCHANGED <<maxRetries, waitVars, ticksLeft, crashesLeft, pollsLeft, db, fileVars,
                   runVars>>

\* generateAggregatorConfig: the configuration is read; an existing list of
\* addresses (currentConfig.includes("address: [") and not the empty list)
\* is kept when no aggregator was discovered
GateRead(t) ==
    /\ exited = 0
    /\ tasks[t].pc = "read"
    /\ IF /\ Len(pollAggs) = 0
          /\ \E i \in 1..Len(config) : config[i].k = "addrs"
          /\ ~\E i \in 1..Len(config) :
                 config[i].k = "addrs" /\ config[i].v = <<>>
       THEN Commit(GateGenerated(Cur, t, FALSE))
       ELSE Commit([Cur EXCEPT !.tasks[t].pc = "backup"])
    /\ UNCHANGED <<maxRetries, waitVars, ticksLeft, crashesLeft, pollVars, fileVars, runVars>>

\* generateAggregatorConfig: backupCurrentConfig()
GateBackup(t) ==
    /\ exited = 0
    /\ tasks[t].pc = "backup"
    /\ backups' = backups \cup {config}
    /\ Commit([Cur EXCEPT !.tasks[t].pc = "update"])
    /\ UNCHANGED <<maxRetries, waitVars, ticksLeft, crashesLeft, pollVars, config, now,
                   runVars>>

\* generateAggregatorConfig: updateAggregatorConfig(aggregators) reads the
\* file, rebuilds the text and writes it
GateUpdate(t) ==
    /\ exited = 0
    /\ tasks[t].pc = "update"
    /\ currentConfig' = config
    /\ IF CanBuild(config)
       THEN /\ config' = buildConfigWithAggregators(config, pollAggs, now)
            /\ now' = now + 1
            /\ pollRun' = IF t = "poll" THEN [pollRun EXCEPT !.wrote = TRUE]
                          ELSE pollRun
            /\ Commit([Cur EXCEPT !.tasks[t].pc = "validate"])
       ELSE /\ UNCHANGED <<config, now, pollRun>>
            /\ Commit(GateFailed(Cur, t))
    /\ UNCHANGED <<maxRetries, waitVars, ticksLeft, crashesLeft, pollVars, backups,
                   cycles, validation,
                   generatedSchemaName, route, monitor>>

\* generateAggregatorConfig: validateGeneratedConfig(), whose readFile may
\* throw (not readable); restartAll() when shouldRestart is set
GateValidate(t, readable) ==
    /\ exited = 0
    /\ tasks[t].pc = "validate"
    /\ validation' = IF ~readable THEN "unreadable"
                     ELSE IF validateGeneratedConfig(config) THEN "passed"
                     ELSE "rejected"
    /\ IF readable /\ validateGeneratedConfig(config)
       THEN /\ Commit(GateGenerated(Cur, t, TRUE))
            /\ pollRun' = IF t = "poll" THEN [pollRun EXCEPT !.restarted = TRUE]
                          ELSE pollRun
       ELSE /\ Commit(GateFailed(Cur, t))
            /\ pollRun' = pollRun
    /\ UNCHANGED <<maxRetries, waitVars, ticksLeft, crashesLeft, pollVars, fileVars,
                   currentConfig, cycles,
                   generatedSchemaName, route, monitor>>

\* the discovery interval fires: pollForNewAggregators up to its COUNT query;
\* nothing is done while the flags indexer is not running
GatePollTick ==
    /\ exited = 0
    /\ discoveryTimer
    /\ pollsLeft > 0
    /\ tasks["poll"].pc = "idle"
    /\ pollsLeft' = pollsLeft - 1
    /\ pollRun' = NoRun
    /\ IF getHealthStatus(Cur)[<<"flags", "indexer">>].running
       THEN Commit([Cur EXCEPT !.tasks["poll"].pc = "count"])
       ELSE Commit(Cur)
    /\ UNCHANGED <<maxRetries, waitVars, ticksLeft, crashesLeft, db, discoveredAggregators,
                   pollAggs, fileVars, currentConfig, cycles, validation,
                   generatedSchemaName, route, monitor>>

\* the COUNT query returns (ok) or fails; getLastConfigGeneration() is called
GateCount(ok) ==
    /\ exited = 0
    /\ tasks["poll"].pc = "count"
    /\ IF ok /\ Len(db) > 0
       THEN Commit([Cur EXCEPT !.tasks["poll"].pc = "lastgen"])
       ELSE Commit([Cur EXCEPT !.tasks["poll"] = IdleTask])
    /\ UNCHANGED <<maxRetries, waitVars, ticksLeft, crashesLeft, pollVars, fileVars, runVars>>

\* getLastConfigGeneration() returns: the incremental discovery is made when
\* the configuration carries a generation time, the full one otherwise
GateLastGen ==
    /\ exited = 0
    /\ tasks["poll"].pc = "lastgen"
    /\ LET lastGeneration == getLastConfigGeneration(config)
       IN  /\ pollRun' = [pollRun EXCEPT !.since = lastGeneration]
           /\ IF lastGeneration # 0
              THEN Commit([Cur EXCEPT !.tasks["poll"].pc = "since"])
              ELSE Commit([Cur EXCEPT !.tasks["poll"].pc = "full"])
    /\ UNCHANGED <<maxRetries, waitVars, ticksLeft, crashesLeft, pollVars, fileVars,
                   currentConfig, cycles, validation,
                   generatedSchemaName, route, monitor>>

\* discoverFromDatabase(url, lastGeneration) returns: the threshold
GateSince(ok) ==
    /\ exited = 0
    /\ tasks["poll"].pc = "since"
    /\ LET newAggregators == IF ok THEN Aggregators(CreatedAfter(db, pollRun.since)) ELSE <<>>
       IN  /\ discoveredAggregators' =
                 MapSet(discoveredAggregators, newAggregators, now)
           /\ pollRun' = [pollRun EXCEPT !.delta = Len(newAggregators)]
           /\ IF MeetsThreshold(Len(newAggregators))
              THEN Commit([Cur EXCEPT !.tasks["poll"].pc = "full"])
              ELSE Commit([Cur EXCEPT !.tasks["poll"] = IdleTask])
    /\ UNCHANGED <<maxRetries, waitVars, ticksLeft, crashesLeft, pollsLeft, db, pollAggs,
                   fileVars, currentConfig, cycles, validation,
                   generatedSchemaName, route, monitor>>

\* discoverFromDatabase(url) returns all aggregators;
\* generateAggregatorConfig(allAggregators, true) up to its readFile
GateFull(ok) ==
    /\ exited = 0
    /\ tasks["poll"].pc = "full"
    /\ LET found == discoverFromDatabase(discoveredAggregators, db, ok, now)
           allAggregators == found.aggregators
       IN  /\ discoveredAggregators' = found.map
           /\ pollRun' = [pollRun EXCEPT !.failed = ~ok]
           /\ IF pollRun.since = 0 /\ Len(allAggregators) = 0
              THEN /\ pollAggs' = <<>>
                   /\ Commit([Cur EXCEPT !.tasks["poll"] = IdleTask])
              ELSE /\ pollAggs' = allAggregators
                   /\ Commit([Cur EXCEPT !.tasks["poll"].pc = "read"])
    /\ UNCHANGED <<maxRetries, waitVars, ticksLeft, crashesLeft, pollsLeft, db, fileVars,
                   currentConfig, cycles, validation,
                   generatedSchemaName, route, monitor>>

\* the flags indexer stores one more active data feed
FeedCreated(c) ==
    /\ exited = 0
    /\ Len(db) < MaxRows
    /\ isProcessRunning(Cur, <<"flags", "indexer">>)
    /\ db' = Append(db, FeedAt(c, Len(db) + 1, now))
    /\ UNCHANGED <<maxRetries, waitVars, isRunning, healthTimer, discoveryTimer, exited,
                   processes, processInfo, child, waiters, tasks, restartsInvoked,
                   stopDone, ticksLeft, crashesLeft, pollsLeft,
                   discoveredAggregators, pollAggs, fileVars, runVars>>

\* no health restarts are made by this supervisor; three initial texts of the
\* aggregators app's configuration, the third without the line
\* `export default createConfig({`
InitGate ==
    /\ InitProcesses
    /\ route = [NoRequest EXCEPT !.answered = TRUE]
    /\ pollAggs = <<>>
    /\ impl = "part_010"
    /\ maxRetries \in 1..MaxRetriesCfg
    /\ ticksLeft = 0
    /\ crashesLeft = GateCrashes
    /\ pollsLeft = GatePolls
    /\ db \in {<<>>, <<Feed(1, 1)>>}
    /\ config \in {PlainConfig, ApostropheConfig,
                    [i \in 1..Len(PlainConfig) |->
                        IF PlainConfig[i].k = "entry" THEN Tok("txt")
                        ELSE PlainConfig[i]]}

NextGate ==
    \/ GateStart
    \/ GateBootSettle
    \/ \E ok \in BOOLEAN : GateReady(ok)
    \/ \E ok \in BOOLEAN : GateBootQuery(ok)
    \/ \E t \in GateTasks : GateRead(t)
    \/ \E t \in GateTasks : GateBackup(t)
    \/ \E t \in GateTasks : GateUpdate(t)
    \/ \E t \in GateTasks, readable \in BOOLEAN : GateValidate(t, readable)
    \/ GatePollTick
    \/ \E ok \in BOOLEAN : GateCount(ok)
    \/ GateLastGen
    \/ \E ok \in BOOLEAN : GateSince(ok)
    \/ \E ok \in BOOLEAN : GateFull(ok)
    \/ \E c \in {1, 8453} : FeedCreated(c)
    \/ PollDelayDone
    \/ PollSettle
    \/ Tick
    \/ \E w \in waiters : GraceTimeout(w)
    \/ \E c \in ChildIds, code \in BOOLEAN : ChildExit(c, code)

SpecGate == InitGate /\ [][NextGate]_vars

\* the same supervisor up to its steady state and in it, without discovery
\* runs, with one worker that exits on its own
InitGateLive ==
    /\ InitProcesses
    /\ route = [NoRequest EXCEPT !.answered = TRUE]
    /\ pollAggs = <<>>
    /\ impl = "part_010"
    /\ maxRetries \in 1..MaxRetriesCfg
    /\ ticksLeft = 0
    /\ crashesLeft = LiveCrashes
    /\ pollsLeft = 0
    /\ db \in {<<>>, <<Feed(1, 1)>>}
    /\ config \in {PlainConfig,
                   buildConfigWithAggregators(PlainConfig,
                                              Aggregators(<<Feed(1, 1)>>), 0)}

NextGateLive ==
    \/ GateStart
    \/ GateBootSettle
    \/ \E ok \in BOOLEAN : GateReady(ok)
    \/ \E ok \in BOOLEAN : GateBootQuery(ok)
    \/ \E t \in GateTasks : GateRead(t)
    \/ \E t \in GateTasks : GateBackup(t)
    \/ \E t \in GateTasks : GateUpdate(t)
    \/ \E t \in GateTasks, readable \in BOOLEAN : GateValidate(t, readable)
    \/ Tick
    \/ \E w \in waiters : GraceTimeout(w)
    \/ \E c \in ChildIds, code \in BOOLEAN : ChildExit(c, code)

\* the event loop runs whatever is ready: timers, continuations and the
\* exits of workers are not postponed for ever
SpecGateLive == InitGateLive /\ [][NextGateLive]_vars /\ WF_vars(NextGateLive)

(* ------------------- the readiness wait of start() --------------------- *)
(* start() of part_010 and of part_011 from the spawn of the flags indexer  *)
(* to the spawn of the aggregators indexer.  The wait loops poll an HTTP    *)
(* endpoint of the flags indexer; a fetch takes no time or two intervals.  *)

\* setTimeout(resolve, 3000) between two polls; maxWaitTime
ReadyPollMs == 3000
MaxWaitTimeMs == 10 * 60 * 1000
FetchMs == {0, 2 * ReadyPollMs}

\* what a poll can receive
Responses ==
    {[kind |-> "http", status |-> c, notComplete |-> b] :
        c \in {200, 500, 503}, b \in BOOLEAN}
    \cup {[kind |-> "error", status |-> 0, notComplete |-> FALSE]}

\* Response.ok
HttpOk(r) == r.kind = "http" /\ r.status \in 200..299

\* the test on which waitForFlagsIndexerReady returns, in part_010 and in
\* part_011
IsReady(r) ==
    IF impl = "part_010" THEN HttpOk(r) /\ r.status = 200 /\ ~r.notComplete
    ELSE r.kind = "http" /\ ~r.notComplete

\* the settle check of the flags indexer's start; then waitForFlagsSync
\* (part_011) or waitForFlagsIndexerReady (part_010) sends its first poll
ReadyBootSettle ==
    /\ exited = 0
    /\ tasks["boot"].pc = "settle"
    /\ tasks["boot"].step = 1
    /\ LET failed == SettleFailed(Cur, tasks["boot"].child)
           st0 == [Cur EXCEPT !.tasks["boot"].child = 0]
       IN  Commit(Collect(
             IF failed THEN BootFail(st0)
             ELSE [st0 EXCEPT !.tasks["boot"].pc =
                       IF impl = "part_011" THEN "sync" ELSE "ready"]))
    /\ elapsed' = 0
    /\ UNCHANGED <<maxRetries, impl, readyBy, ticksLeft, crashesLeft, pollVars,
                   fileVars, runVars>>

\* waitForFlagsSync: the answer r to fetch(/health) arrives after d ms; the
\* loop is left on response.ok, and the test after the loop throws
waitForFlagsSync(r, d) ==
    /\ exited = 0
    /\ tasks["boot"].pc = "sync"
    /\ IF HttpOk(r)
       THEN IF elapsed + d >= MaxWaitTimeMs
            THEN /\ elapsed' = elapsed + d
                 /\ Commit(BootFail(Cur))
            ELSE /\ elapsed' = 0
                 /\ Commit([Cur EXCEPT !.tasks["boot"].pc = "ready"])
       ELSE /\ elapsed' = elapsed + d
            /\ Commit([Cur EXCEPT !.tasks["boot"].pc = "syncsleep"])
    /\ UNCHANGED <<maxRetries, impl, readyBy, ticksLeft, crashesLeft, pollVars,
                   fileVars, runVars>>

\* waitForFlagsSync: the 3 seconds are over; the next poll or the throw
SyncSleepDone ==
    /\ exited = 0
    /\ tasks["boot"].pc = "syncsleep"
    /\ elapsed' = elapsed + ReadyPollMs
    /\ IF elapsed + ReadyPollMs < MaxWaitTimeMs
       THEN Commit([Cur EXCEPT !.tasks["boot"].pc = "sync"])
       ELSE Commit(BootFail(Cur))
    /\ UNCHANGED <<maxRetries, impl, readyBy, ticksLeft, crashesLeft, pollVars,
                   fileVars, runVars>>

\* waitForFlagsIndexerReady: the answer r to fetch(/ready) arrives after
\* d ms; the function returns when the answer passes the test
waitForFlagsIndexerReady(r, d) ==
    /\ exited = 0
    /\ tasks["boot"].pc = "ready"
    /\ elapsed' = elapsed + d
    /\ IF IsReady(r)
       THEN /\ readyBy' = r
            /\ Commit([Cur EXCEPT !.tasks["boot"].pc = "query"])
       ELSE /\ readyBy' = readyBy
            /\ Commit([Cur EXCEPT !.tasks["boot"].pc = "readysleep"])
    /\ UNCHANGED <<maxRetries, impl, ticksLeft, crashesLeft, pollVars, fileVars,
                   runVars>>

\* waitForFlagsIndexerReady: the 3 seconds are over; the next poll, or the
\* throw after maxWaitTime
ReadySleepDone ==
    /\ exited = 0
    /\ tasks["boot"].pc = "readysleep"
    /\ elapsed' = elapsed + ReadyPollMs
    /\ IF elapsed + ReadyPollMs < MaxWaitTimeMs
       THEN Commit([Cur EXCEPT !.tasks["boot"].pc = "ready"])
       ELSE Commit(BootFail(Cur))
    /\ UNCHANGED <<maxRetries, impl, readyBy, ticksLeft, crashesLeft, pollVars,
                   fileVars, runVars>>

\* either file; one data feed; the flags indexer may exit on its own
InitReady ==
    /\ InitProcesses
    /\ route = [NoRequest EXCEPT !.answered = TRUE]
    /\ pollAggs = <<>>
    /\ impl \in {"part_010", "part_011"}
    /\ maxRetries = 1
    /\ ticksLeft = 0
    /\ crashesLeft = ReadyCrashes
    /\ pollsLeft = 0
    /\ db = <<Feed(1, 1)>>
    /\ config = PlainConfig

NextReady ==
    \/ GateStart
    \/ ReadyBootSettle
    \/ \E r \in Responses, d \in FetchMs : waitForFlagsSync(r, d)
    \/ SyncSleepDone
    \/ \E r \in Responses, d \in FetchMs : waitForFlagsIndexerReady(r, d)
    \/ ReadySleepDone
    \/ \E ok \in BOOLEAN : GateBootQuery(ok)
    \/ \E t \in GateTasks : GateRead(t)
    \/ \E t \in GateTasks : GateBackup(t)
    \/ \E t \in GateTasks : GateUpdate(t)
    \/ \E t \in GateTasks, readable \in BOOLEAN : GateValidate(t, readable)
    \/ Tick
    \/ \E w \in waiters : GraceTimeout(w)
    \/ \E c \in ChildIds, code \in BOOLEAN : ChildExit(c, code)

SpecReady == InitReady /\ [][NextReady]_vars

(* ------------- the supervisor of the single registry indexer ----------- *)
(* One ProcessManager; start() generates the configuration with the        *)
(* discovered aggregators once and restarts the indexer with it.  In the    *)
(* texts of this supervisor every closing brace that begins a line carries  *)
(* the number of tabs before it:  Cb(2) is `\t\t},`, Cb(0) is `});`.         *)
Cb(d) == TokV("cb", <<d>>)

\* a closing brace at the start of a line, after at least d tabs
IsTabCloser(tok, d) == tok.k = "cb" /\ tok.v # <<>> /\ tok.v[1] >= d

\* ponder.config.ts of the registry indexer, with one chain of the chains
\* block and two chains of the ChainLinkDataFeedFlags contract
FlagsOnlyConfig ==
    <<Tok("ob"), Tok("cb"), Tok("ob"), Tok("cb"),
      Tok("entry"), Tok("ob"),
      Tok("txt"), Tok("ob"),
      TokV("name", <<ethereum>>), Tok("ob"), Tok("q"), Tok("ob"), Tok("cb"),
      Tok("q"), Cb(2),
      Cb(1),
      Tok("contracts"), Tok("ob"),
      Tok("flags"), Tok("ob"), Tok("txt"), Tok("ob"),
      TokV("name", <<ethereum>>), Tok("ob"), TokV("sb", <<22031347>>), Cb(4),
      TokV("name", <<base>>), Tok("ob"), TokV("sb", <<27544881>>), Cb(4),
      Cb(3), Cb(2), Cb(1), Cb(0)>>

\* the same file with the import of the aggregator ABI and an empty
\* AccessControlledOffchainAggregator contract after the flags contract
RegistryConfig ==
    <<Tok("ob"), Tok("cb"), Tok("ob"), Tok("cb"), Tok("ob"), Tok("abi"), Tok("cb"),
      Tok("entry"), Tok("ob"),
      Tok("contracts"), Tok("ob"),
      Tok("flags"), Tok("ob"), Tok("txt"), Tok("ob"),
      TokV("name", <<ethereum>>), Tok("ob"), TokV("sb", <<22031347>>), Cb(4),
      Cb(3), Cb(2),
      Tok("sec"), Tok("ob"), Tok("abi"), Tok("txt"), Tok("ob"), Cb(3),
      Cb(2), Cb(1), Cb(0)>>

\* getAllAggregators(): the values of the map, one per key, in the order in
\* which the keys were first set
RECURSIVE getAllAggregators(_)
getAllAggregators(aggs) ==
    IF aggs = <<>> THEN <<>>
    ELSE LET rest == getAllAggregators(SubSeq(aggs, 1, Len(aggs) - 1))
             a == aggs[Len(aggs)]
         IN  IF \E i \in 1..Len(rest) :
                    rest[i].chainId = a.chainId /\ rest[i].address = a.address
             THEN rest ELSE Append(rest, a)

\* getStartBlockForChain of the registry supervisor: the match of
\* /<chainName>:\s*{[^}]*startBlock:\s*(\d+)/ in the file, or 1000000
StartBlockMatches(text, c) ==
    {i \in 1..(Len(text) - 1) :
        /\ text[i].k = "name" /\ text[i].v = <<c>> /\ text[i + 1].k = "ob"
        /\ \E j \in (i + 2)..Len(text) :
              /\ text[j].k = "sb"
              /\ \A m \in (i + 2)..(j - 1) : text[m].k # "cb"}
RegStartBlockForChain(text, c) ==
    IF StartBlockMatches(text, c) = {} THEN 1000000
    ELSE LET i == CHOOSE x \in StartBlockMatches(text, c) :
                     \A y \in StartBlockMatches(text, c) : x <= y
             J == {j \in (i + 2)..Len(text) :
                      /\ text[j].k = "sb"
                      /\ \A m \in (i + 2)..(j - 1) : text[m].k # "cb"}
             j == CHOOSE x \in J : \A y \in J : y <= x
         IN  text[j].v[1]

\* generateAggregatorContracts of the registry supervisor: chains and
\* addresses in the order of the discovery
RECURSIVE RegRenderChains(_, _, _)
RegRenderChains(text, aggs, chains) ==
    IF chains = <<>> THEN <<>>
    ELSE LET c == Head(chains)
         IN  <<TokV("name", <<c>>), Tok("ob"),
               TokV("addrs", GroupOf(aggs, c)),
               TokV("sb", <<RegStartBlockForChain(text, c)>>), Cb(4)>>
             \o RegRenderChains(text, aggs, Tail(chains))

\* indexOf: the least index of a set of matches, 0 when there is none
FirstOf(S) == IF S = {} THEN 0 ELSE CHOOSE x \in S : \A y \in S : x <= y

\* extractConfigTemplate: the end of baseConfig, 0 when the structure of
\* the file is not recognised
TemplateEnd(text) ==
    LET configStart == FirstOf({i \in 1..(Len(text) - 1) :
                                  text[i].k = "entry" /\ text[i + 1].k = "ob"})
        contractsStart == FirstOf({i \in 1..(Len(text) - 1) :
                                  text[i].k = "contracts" /\ text[i + 1].k = "ob"})
        flagsContractStart == FirstOf({i \in 1..(Len(text) - 1) :
                                  text[i].k = "flags" /\ text[i + 1].k = "ob"})
        from == IF flagsContractStart = 0 THEN 1 ELSE flagsContractStart
        match == FirstOf({i \in from..(Len(text) - 1) :
                            /\ IsTabCloser(text[i], 2)
                            /\ \/ IsTabCloser(text[i + 1], 1)
                               \/ text[i + 1].k = "sec"})
        plain == FirstOf({i \in from..Len(text) : IsTabCloser(text[i], 2)})
    IN  IF configStart = 0 \/ contractsStart = 0 THEN 0
        ELSE IF match # 0 THEN match
        ELSE IF plain # 0 THEN plain - 1
        ELSE 0

\* extractConfigTemplate(originalConfig).baseConfig and .imports
TemplateBase(text) ==
    SubSeq(text,
           FirstOf({i \in 1..(Len(text) - 1) :
                      text[i].k = "entry" /\ text[i + 1].k = "ob"}),
           TemplateEnd(text))

\* the match of "\t\t},\n\t},\n});" from the start of the section on
SectionTail(text) ==
    FirstOf({i \in SectionStart(text)..(Len(text) - 2) :
               /\ SectionStart(text) # 0
               /\ IsTabCloser(text[i], 2)
               /\ text[i + 1] = Cb(1)
               /\ text[i + 2] = Cb(0)})

\* buildConfigWithAggregators of the registry supervisor; it throws when the
\* end of the section, or of the template, is not found
RegBuildConfigWithAggregators(text, aggs) ==
    LET contracts == RegRenderChains(text, aggs, GroupKeys(aggs))
        section == <<Tok("sec"), Tok("ob"), Tok("abi"), Tok("txt"), Tok("ob")>>
                   \o contracts \o <<Cb(3)>>
    IN  IF SectionStart(text) # 0
        THEN SubSeq(text, 1, SectionStart(text) - 1) \o section
             \o SubSeq(text, SectionTail(text), Len(text))
        ELSE <<Tok("ob"), Tok("cb"), Tok("ob"), Tok("cb"), Tok("ob"), Tok("abi"),
               Tok("cb")>> \o TemplateBase(text) \o section
             \o <<Cb(2), Cb(1), Cb(0)>>

\* generateSchemaName(aggregatorsByChain): chainlink_agg_<chains>c_<total>a_
\* <hash>, the hash being the first 8 hex digits of the sha256 of the chains
\* in order, each with its lower-case addresses in order, and of Date.now().
\* The hash is taken as free of collisions and stands as its input; the
\* numbered addresses stand for their lower-case forms.
generateSchemaName(aggs, ts) ==
    [chainCount |-> Len(GroupKeys(aggs)),
     totalAggregators |-> Len(aggs),
     shortHash |-> <<[i \in 1..Len(GroupKeys(aggs)) |->
                        <<Sort(GroupKeys(aggs))[i],
                          Sort(GroupOf(aggs, Sort(GroupKeys(aggs))[i]))>>],
                     ts>>]

RegIndexer == <<"registry", "indexer">>
RegServer == <<"registry", "server">>

\* stopAll() of the one ProcessManager, by task t
RegStopAll(st, t) == StopProc(StopProc(st, t, RegIndexer), t, RegServer)

\* stop() of the registry supervisor with isRunning true, up to its await
RegSupervisorStop(st) ==
    LET st0 == [st EXCEPT !.isRunning = FALSE,
                          !.tasks["stop"] = [IdleTask EXCEPT !.pc = "stopwait",
                                                             !.step = 1]]
        st1 == RegStopAll(st0, "stop")
    IN  IF TaskWaits(st1, "stop") THEN st1 ELSE StopFinished(st1)

\* the catch block of start(): await this.stop(); throw error
RegFail(st) == RegSupervisorStop([st EXCEPT !.tasks["boot"].pc = "failed"])

\* start(): isRunning = true, startInitialIndexing
RegStart ==
    /\ exited = 0
    /\ ~isRunning
    /\ tasks["boot"].pc = "idle"
    /\ Commit(StartProc([Cur EXCEPT !.isRunning = TRUE,
                                    !.tasks["boot"].step = 1],
                        "boot", RegIndexer))
    /\ UNCHANGED <<maxRetries, waitVars, ticksLeft, crashesLeft, pollVars, fileVars, runVars>>

\* the settle check of a start made by start(): in startInitialIndexing
\* (steps 1 and 2) or in the restartAll of generateConfigAndRestart (5 and 6)
RegBootSettle ==
    /\ exited = 0
    /\ tasks["boot"].pc = "settle"
    /\ LET k == tasks["boot"].step
           failed == SettleFailed(Cur, tasks["boot"].child)
           st0 == [Cur EXCEPT !.tasks["boot"].child = 0]
       IN  Commit(Collect(
             CASE k = 1 -> IF failed THEN RegFail(st0)
                           ELSE StartProc([st0 EXCEPT !.tasks["boot"].step = 2],
                                          "boot", RegServer)
               [] k = 2 -> [st0 EXCEPT !.tasks["boot"].pc = "query"]
               [] k = 5 -> StartProc([st0 EXCEPT
                                        !.tasks["boot"].step = 6,
                                        !.tasks["boot"].before =
                                            IF failed THEN 0 ELSE 1],
                                     "boot", RegServer)
               [] OTHER -> IF failed \/ tasks["boot"].before = 0
                           THEN RegFail(st0)
                           ELSE [st0 EXCEPT !.tasks["boot"].pc = "done"]))
    /\ elapsed' = IF tasks["boot"].step = 2 THEN 0 ELSE elapsed
    /\ UNCHANGED <<maxRetries, impl, readyBy, ticksLeft, crashesLeft, pollVars,
                   fileVars, runVars>>

\* waitForChainsAndDiscover: maxWaitTime and the 5 seconds between two checks
RegMaxWaitTimeMs == 10 * 60 * 1000
RegWaitPollMs == 5000

\* waitForChainsAndDiscover: the monitor calls onChainsReady, once, on the
\* answer 200 of /status without a chain that is not complete; the
\* discovery sets discoveryComplete when it finds an aggregator, the loop
\* ends and generateConfigAndRestart reads getAllAggregators()
RegDiscover(ok) ==
    /\ exited = 0
    /\ tasks["boot"].pc = "query"
    /\ readyBy = NoResp
    /\ readyBy' = [kind |-> "http", status |-> 200, notComplete |-> FALSE]
    /\ LET found == discoverFromDatabase(discoveredAggregators, db, ok, now)
           aggregators == getAllAggregators(found.aggregators)
       IN  /\ discoveredAggregators' = found.map
           /\ pollAggs' = aggregators
           /\ IF Len(aggregators) = 0
              THEN Commit(Cur)
              ELSE Commit([Cur EXCEPT !.tasks["boot"].pc = "generate"])
    /\ UNCHANGED <<maxRetries, impl, elapsed, ticksLeft, crashesLeft, pollsLeft, db,
                   fileVars, runVars>>

\* waitForChainsAndDiscover: the 5 seconds of the loop are over; after
\* maxWaitTime the loop ends, the function returns, generateConfigAndRestart
\* finds no aggregator and start() goes on to startMonitoring
RegWaitSleepDone ==
    /\ exited = 0
    /\ tasks["boot"].pc = "query"
    /\ elapsed' = elapsed + RegWaitPollMs
    /\ IF elapsed + RegWaitPollMs < RegMaxWaitTimeMs
       THEN Commit(Cur)
       ELSE Commit([Cur EXCEPT !.tasks["boot"].pc = "done"])
    /\ UNCHANGED <<maxRetries, impl, readyBy, ticksLeft, crashesLeft, pollVars,
                   fileVars, runVars>>

\* generateConfig(aggregators): the file is read, the new text is built and
\* written to the same file
generateConfig ==
    /\ exited = 0
    /\ tasks["boot"].pc = "generate"
    /\ currentConfig' = config
    /\ generatedSchemaName' = generateSchemaName(pollAggs, now)
    /\ IF (IF SectionStart(config) # 0 THEN SectionTail(config) # 0
           ELSE TemplateEnd(config) # 0)
       THEN /\ config' = RegBuildConfigWithAggregators(config, pollAggs)
            /\ Commit([Cur EXCEPT !.tasks["boot"].pc = "validate"])
       ELSE /\ config' = config
            /\ Commit(RegFail(Cur))
    /\ UNCHANGED <<maxRetries, waitVars, ticksLeft, crashesLeft, pollVars, backups, now,
                   pollRun, cycles, validation, route, monitor>>

\* validateGeneratedConfig(), then stopAll() up to its await
RegValidate ==
    /\ exited = 0
    /\ tasks["boot"].pc = "validate"
    /\ IF validateGeneratedConfig(config)
       THEN LET st1 == RegStopAll([Cur EXCEPT !.tasks["boot"].step = 3], "boot")
            IN  Commit(IF TaskWaits(st1, "boot")
                       THEN [st1 EXCEPT !.tasks["boot"].pc = "stopwait"]
                       ELSE [st1 EXCEPT !.tasks["boot"].pc = "activate"])
       ELSE Commit(RegFail(Cur))
    /\ UNCHANGED <<maxRetries, waitVars, ticksLeft, crashesLeft, pollVars, fileVars, runVars>>

\* activateGeneratedConfig(): backupCurrentConfig(), then the file is read
\* and written back
activateGeneratedConfig ==
    /\ exited = 0
    /\ tasks["boot"].pc = "activate"
    /\ backups' = backups \cup {config}
    /\ config' = config
    /\ Commit([Cur EXCEPT !.tasks["boot"].pc = "wait"])
    /\ UNCHANGED <<maxRetries, waitVars, ticksLeft, crashesLeft, pollVars, now, runVars>>

\* the 2-second wait is over: restartAll() up to its await
RegRestartAll ==
    /\ exited = 0
    /\ tasks["boot"].pc = "wait"
    /\ LET st1 == RegStopAll([Cur EXCEPT !.tasks["boot"].step = 4], "boot")
       IN  Commit(IF TaskWaits(st1, "boot")
                  THEN [st1 EXCEPT !.tasks["boot"].pc = "stopwait"]
                  ELSE [st1 EXCEPT !.tasks["boot"].pc = "delay"])
    /\ UNCHANGED <<maxRetries, waitVars, ticksLeft, crashesLeft, pollVars, fileVars, runVars>>

\* the restart delay of restartAll is over: startIndexer
RegDelayDone ==
    /\ exited = 0
    /\ tasks["boot"].pc = "delay"
    /\ Commit(StartProc([Cur EXCEPT !.tasks["boot"].step = 5], "boot", RegIndexer))
    /\ UNCHANGED <<maxRetries, waitVars, ticksLeft, crashesLeft, pollVars, fileVars, runVars>>

\* the flags-only file of the repository or a file with the aggregator
\* section; up to two data feeds
InitRegistry ==
    /\ InitProcesses
    /\ route = [NoRequest EXCEPT !.answered = TRUE]
    /\ pollAggs = <<>>
    /\ impl = "registry/supervisor/index.ts"
    /\ maxRetries \in 1..MaxRetriesCfg
    /\ ticksLeft = 0
    /\ crashesLeft = RegCrashes
    /\ pollsLeft = 0
    /\ db \in {<<>>, <<Feed(1, 1)>>, <<Feed(8453, 2), Feed(1, 1)>>,
               <<Feed(1, 1), Feed(1, 1)>>}
    /\ config \in {FlagsOnlyConfig, RegistryConfig}

NextRegistry ==
    \/ RegStart
    \/ RegBootSettle
    \/ \E ok \in BOOLEAN : RegDiscover(ok)
    \/ RegWaitSleepDone
    \/ generateConfig
    \/ RegValidate
    \/ activateGeneratedConfig
    \/ RegRestartAll
    \/ RegDelayDone
    \/ Tick
    \/ \E w \in waiters : GraceTimeout(w)
    \/ \E c \in ChildIds, code \in BOOLEAN : ChildExit(c, code)

SpecRegistry == InitRegistry /\ [][NextRegistry]_vars

(* -------------- AggregatorDiscovery and ConfigGenerator alone ---------- *)
(* The two classes driven by their callers: discoverFromDatabase() and      *)
(* updateAggregatorConfig(aggregators) are called in any order while the     *)
(* flags indexer stores data feeds and feeds stop being active.              *)

\* the flags indexer stores an active data feed whose aggregator is a
StoreFeed(c, a) ==
    /\ Len(db) < DiscRows
    /\ db' = Append(db, Feed(c, a))
    /\ UNCHANGED <<maxRetries, waitVars, isRunning, healthTimer, discoveryTimer,
                   exited, processes, processInfo, child, waiters, tasks,
                   restartsInvoked, stopDone, ticksLeft, crashesLeft, pollsLeft,
                   discoveredAggregators, pollAggs, fileVars, runVars>>

\* a data feed stops being selected by the query (flagged or ignored)
DropFeed(i) ==
    /\ i \in 1..Len(db)
    /\ db' = SubSeq(db, 1, i - 1) \o SubSeq(db, i + 1, Len(db))
    /\ UNCHANGED <<maxRetries, waitVars, isRunning, healthTimer, discoveryTimer,
                   exited, processes, processInfo, child, waiters, tasks,
                   restartsInvoked, stopDone, ticksLeft, crashesLeft, pollsLeft,
                   discoveredAggregators, pollAggs, fileVars, runVars>>

\* one discovery cycle: a call of discoverFromDatabase() and its return
DiscoveryCycle(ok) ==
    /\ pollsLeft > 0
    /\ pollsLeft' = pollsLeft - 1
    /\ LET found == discoverFromDatabase(discoveredAggregators, db, ok, now)
       IN  /\ pollAggs' = found.aggregators
           /\ discoveredAggregators' = found.map
           /\ cycles' = Append(cycles, [at |-> now, ok |-> ok,
                                        found |-> AggregatorKeys(found.aggregators)])
    /\ now' = now + 1
    /\ UNCHANGED <<maxRetries, waitVars, isRunning, healthTimer, discoveryTimer,
                   exited, processes, processInfo, child, waiters, tasks,
                   restartsInvoked, stopDone, ticksLeft, crashesLeft, db, config,
                   backups, currentConfig, pollRun, validation,
                   generatedSchemaName, route, monitor>>

\* updateAggregatorConfig(aggregators) with the list returned last
updateAggregatorConfig ==
    /\ pollsLeft > 0
    /\ pollsLeft' = pollsLeft - 1
    /\ CanBuild(config)
    /\ currentConfig' = config
    /\ config' = buildConfigWithAggregators(config, pollAggs, now)
    /\ now' = now + 1
    /\ UNCHANGED <<maxRetries, waitVars, isRunning, healthTimer, discoveryTimer,
                   exited, processes, processInfo, child, waiters, tasks,
                   restartsInvoked, stopDone, ticksLeft, crashesLeft, db,
                   discoveredAggregators, pollAggs, backups, pollRun, cycles, validation,
                   generatedSchemaName, route, monitor>>

\* an empty store, an empty map, the configuration without aggregators
InitDiscovery ==
    /\ InitProcesses
    /\ route = [NoRequest EXCEPT !.answered = TRUE]
    /\ pollAggs = <<>>
    /\ impl = "none"
    /\ maxRetries = 1
    /\ ticksLeft = 0
    /\ crashesLeft = 0
    /\ pollsLeft = DiscCalls
    /\ db = <<>>
    /\ config = PlainConfig

NextDiscovery ==
    \/ \E r \in {<<1, 1>>, <<1, 2>>, <<8453, 3>>} : StoreFeed(r[1], r[2])
    \/ \E i \in 1..DiscRows : DropFeed(i)
    \/ \E ok \in BOOLEAN : DiscoveryCycle(ok)
    \/ updateAggregatorConfig

SpecDiscovery == InitDiscovery /\ [][NextDiscovery]_vars

(* -------------------- the Config Mutator applied twice ------------------ *)
\* updateAggregatorConfig(aggregators) called DiscCalls times in a row with
\* the same list (the aggregators of up to DiscRows rows, in any order and
\* with repetitions) on a file that holds the plain block, a block with
\* apostrophes in and after it, or a block with one apostrophe
InitMutate ==
    /\ InitProcesses
    /\ route = [NoRequest EXCEPT !.answered = TRUE]
    /\ impl = "none"
    /\ maxRetries = 1
    /\ ticksLeft = 0
    /\ crashesLeft = 0
    /\ pollsLeft = DiscCalls
    /\ db = <<>>
    /\ config \in {PlainConfig, ApostropheConfig,
                   [PlainConfig EXCEPT ![14] = Tok("q")]}
    /\ \E n \in 0..DiscRows :
         \E rows \in [1..n -> {Feed(1, 1), Feed(1, 2), Feed(8453, 3)}] :
            pollAggs = Aggregators(rows)

SpecMutate == InitMutate /\ [][updateAggregatorConfig]_vars

(* ------------------- PonderMonitor.startMonitoring --------------------- *)
(* One call of startMonitoring(onChainsReady).  checkStatus is started by   *)
(* the call and by every firing of the interval, whether or not an earlier  *)
(* run is still awaiting getIndexingStatus(); the runs that await are       *)
(* counted in monitor.pending and resume in any order.  monitor.status is   *)
(* the set of chains in the answer of /status; monitor.calls lists the      *)
(* readyChains of every call of onChainsReady.                              *)

\* startMonitoring(onChainsReady): hasCalledCallback = false, the initial
\* checkStatus() up to its await, setInterval
startMonitoring ==
    /\ ~monitor.started
    /\ monitor.checksLeft > 0
    /\ monitor' = [monitor EXCEPT !.started = TRUE,
                                  !.hasCalledCallback = FALSE,
                                  !.intervalId = TRUE,
                                  !.pending = @ + 1,
                                  !.checksLeft = @ - 1]
    /\ UNCHANGED <<maxRetries, waitVars, isRunning, healthTimer, discoveryTimer,
                   exited, processes, processInfo, child, waiters, tasks,
                   restartsInvoked, stopDone, ticksLeft, crashesLeft, pollVars,
                   fileVars, currentConfig, pollRun, cycles, validation,
                   generatedSchemaName, route>>

\* the interval fires: checkStatus() up to its await
checkStatus ==
    /\ monitor.intervalId
    /\ monitor.checksLeft > 0
    /\ monitor' = [monitor EXCEPT !.pending = @ + 1, !.checksLeft = @ - 1]
    /\ UNCHANGED <<maxRetries, waitVars, isRunning, healthTimer, discoveryTimer,
                   exited, processes, processInfo, child, waiters, tasks,
                   restartsInvoked, stopDone, ticksLeft, crashesLeft, pollVars,
                   fileVars, currentConfig, pollRun, cycles, validation,
                   generatedSchemaName, route>>

\* getIndexingStatus() returns to a run of checkStatus: null after a failed
\* request, the status otherwise; the run calls onChainsReady when chains
\* are ready and the flag is not set (a mutant does not test the flag)
getIndexingStatusReturnsUntested(ok) ==
    /\ monitor.pending > 0
    /\ monitor' =
         IF ~ok THEN [monitor EXCEPT !.pending = @ - 1]
         ELSE IF monitor.status # {}
         THEN [monitor EXCEPT !.pending = @ - 1,
                              !.lastKnownStatus = monitor.status,
                              !.hasCalledCallback = TRUE,
                              !.calls = Append(@, monitor.status)]
         ELSE [monitor EXCEPT !.pending = @ - 1,
                              !.lastKnownStatus = monitor.status]
    /\ UNCHANGED <<maxRetries, waitVars, isRunning, healthTimer, discoveryTimer,
                   exited, processes, processInfo, child, waiters, tasks,
                   restartsInvoked, stopDone, ticksLeft, crashesLeft, pollVars,
                   fileVars, currentConfig, pollRun, cycles, validation,
                   generatedSchemaName, route>>
getIndexingStatusReturns(ok) ==
    /\ monitor.pending > 0
    /\ monitor' =
         IF ~ok THEN [monitor EXCEPT !.pending = @ - 1]
         ELSE IF monitor.status # {} /\ ~monitor.hasCalledCallback
         THEN [monitor EXCEPT !.pending = @ - 1,
                              !.lastKnownStatus = monitor.status,
                              !.hasCalledCallback = TRUE,
                              !.calls = Append(@, monitor.status)]
         ELSE [monitor EXCEPT !.pending = @ - 1,
                              !.lastKnownStatus = monitor.status]
    /\ UNCHANGED <<maxRetries, waitVars, isRunning, healthTimer, discoveryTimer,
                   exited, processes, processInfo, child, waiters, tasks,
                   restartsInvoked, stopDone, ticksLeft, crashesLeft, pollVars,
                   fileVars, currentConfig, pollRun, cycles, validation,
                   generatedSchemaName, route>>

\* the indexer completes the historical sync of a chain: /status lists it
ChainReady(c) ==
    /\ c \notin monitor.status
    /\ monitor' = [monitor EXCEPT !.status = @ \cup {c}]
    /\ UNCHANGED <<maxRetries, waitVars, isRunning, healthTimer, discoveryTimer,
                   exited, processes, processInfo, child, waiters, tasks,
                   restartsInvoked, stopDone, ticksLeft, crashesLeft, pollVars,
                   fileVars, currentConfig, pollRun, cycles, validation,
                   generatedSchemaName, route>>

\* the cleanup function returned by startMonitoring: clearInterval
stopMonitoring ==
    /\ monitor.started
    /\ monitor.intervalId
    /\ monitor' = [monitor EXCEPT !.intervalId = FALSE]
    /\ UNCHANGED <<maxRetries, waitVars, isRunning, healthTimer, discoveryTimer,
                   exited, processes, processInfo, child, waiters, tasks,
                   restartsInvoked, stopDone, ticksLeft, crashesLeft, pollVars,
                   fileVars, currentConfig, pollRun, cycles, validation,
                   generatedSchemaName, route>>

\* a monitor on which startMonitoring has not been called yet
InitMonitor ==
    /\ InitProcesses
    /\ route = [NoRequest EXCEPT !.answered = TRUE]
    /\ pollAggs = <<>>
    /\ impl = "none"
    /\ maxRetries = 1
    /\ ticksLeft = 0
    /\ crashesLeft = 0
    /\ pollsLeft = 0
    /\ db = <<>>
    /\ config = PlainConfig

SpecMonitor ==
    InitMonitor /\ [][\/ startMonitoring
                      \/ checkStatus
                      \/ \E ok \in BOOLEAN : getIndexingStatusReturns(ok)
                      \/ \E c \in {base, ethereum} : ChainReady(c)
                      \/ stopMonitoring]_vars

(* ------------------------- the price API: routes ----------------------- *)
(* GET /quote/:chainId/:fromToken/:toToken of the aggregators indexer.  The  *)
(* active feeds of the chain are a sequence of pairs <<base, quote>> of      *)
(* token symbols; symbols are numbered.  A request is drawn by Init and the  *)
(* handler answers it.                                                       *)

\* buildTokenGraph: for every feed, in order, an edge base -> quote is pushed
\* to the list of base and an edge quote -> base to the list of quote
buildTokenGraph(feeds) ==
    LET halves == [i \in 1..(2 * Len(feeds)) |->
                     IF i % 2 = 1
                     THEN [from |-> feeds[(i + 1) \div 2][1],
                           toToken |-> feeds[(i + 1) \div 2][2],
                           dataFeed |-> (i + 1) \div 2, conversionType |-> "direct"]
                     ELSE [from |-> feeds[i \div 2][2],
                           toToken |-> feeds[i \div 2][1],
                           dataFeed |-> i \div 2, conversionType |-> "inverse"]]
    IN  [t \in 1..MaxTokens |-> SelectSeq(halves, LAMBDA e : e.from = t)]

\* findShortestRoute(graph, fromToken, toToken, maxHops) (a mutant skips a
\* queue entry only when it is longer than maxHops)
findShortestRouteLate(graph, fromToken, toToken, maxHops) ==
    LET RECURSIVE Search(_)
        Search(queue) ==
            IF queue = <<>> THEN NullRoute
            ELSE LET current == Head(queue)
                     nextEdges == SelectSeq(graph[current.currentToken],
                                            LAMBDA e : e.toToken \notin current.visited)
                     hits == {i \in 1..Len(nextEdges) : nextEdges[i].toToken = toToken}
                 IN  IF Len(current.conversions) > maxHops THEN Search(Tail(queue))
                     ELSE IF hits # {}
                     THEN LET edge == nextEdges[CHOOSE i \in hits : \A j \in hits : i <= j]
                          IN  [path |-> Append(current.path, toToken),
                               conversions |-> Append(current.conversions, edge),
                               hops |-> Len(current.conversions) + 1]
                     ELSE Search(Tail(queue) \o
                            [i \in 1..Len(nextEdges) |->
                               [currentToken |-> nextEdges[i].toToken,
                                path |-> Append(current.path, nextEdges[i].toToken),
                                conversions |-> Append(current.conversions, nextEdges[i]),
                                visited |-> current.visited \cup {nextEdges[i].toToken}]])
        startingEdges == graph[fromToken]
        direct == {i \in 1..Len(startingEdges) : startingEdges[i].toToken = toToken}
    IN  IF fromToken = toToken
        THEN [path |-> <<fromToken>>, conversions |-> <<>>, hops |-> 0]
        ELSE IF direct # {}
        THEN [path |-> <<fromToken, toToken>>,
              conversions |-> <<startingEdges[CHOOSE i \in direct : \A j \in direct : i <= j]>>,
              hops |-> 1]
        ELSE Search([i \in 1..Len(startingEdges) |->
                       [currentToken |-> startingEdges[i].toToken,
                        path |-> <<fromToken, startingEdges[i].toToken>>,
                        conversions |-> <<startingEdges[i]>>,
                        visited |-> {fromToken, startingEdges[i].toToken}]])
findShortestRoute(graph, fromToken, toToken, maxHops) ==
    LET RECURSIVE Search(_)
        Search(queue) ==
            IF queue = <<>> THEN NullRoute
            ELSE LET current == Head(queue)
                     nextEdges == SelectSeq(graph[current.currentToken],
                                            LAMBDA e : e.toToken \notin current.visited)
                     hits == {i \in 1..Len(nextEdges) : nextEdges[i].toToken = toToken}
                 IN  IF Len(current.conversions) >= maxHops THEN Search(Tail(queue))
                     ELSE IF hits # {}
                     THEN LET edge == nextEdges[CHOOSE i \in hits : \A j \in hits : i <= j]
                          IN  [path |-> Append(current.path, toToken),
                               conversions |-> Append(current.conversions, edge),
                               hops |-> Len(current.conversions) + 1]
                     ELSE Search(Tail(queue) \o
                            [i \in 1..Len(nextEdges) |->
                               [currentToken |-> nextEdges[i].toToken,
                                path |-> Append(current.path, nextEdges[i].toToken),
                                conversions |-> Append(current.conversions, nextEdges[i]),
                                visited |-> current.visited \cup {nextEdges[i].toToken}]])
        startingEdges == graph[fromToken]
        direct == {i \in 1..Len(startingEdges) : startingEdges[i].toToken = toToken}
    IN  IF fromToken = toToken
        THEN [path |-> <<fromToken>>, conversions |-> <<>>, hops |-> 0]
        ELSE IF direct # {}
        THEN [path |-> <<fromToken, toToken>>,
              conversions |-> <<startingEdges[CHOOSE i \in direct : \A j \in direct : i <= j]>>,
              hops |-> 1]
        ELSE Search([i \in 1..Len(startingEdges) |->
                       [currentToken |-> startingEdges[i].toToken,
                        path |-> <<fromToken, startingEdges[i].toToken>>,
                        conversions |-> <<startingEdges[i]>>,
                        visited |-> {fromToken, startingEdges[i].toToken}]])

\* the handler of GET /quote for two different tokens: the graph is built and
\* the route is searched
quote ==
    /\ ~route.answered
    /\ route.fromToken # route.toToken
    /\ route' = [route EXCEPT
                   !.answered = TRUE,
                   !.result = findShortestRoute(buildTokenGraph(route.feeds),
                                                route.fromToken, route.toToken,
                                                route.maxHops)]
    /\ UNCHANGED <<maxRetries, waitVars, isRunning, healthTimer, discoveryTimer,
                   exited, processes, processInfo, child, waiters, tasks,
                   restartsInvoked, stopDone, ticksLeft, crashesLeft, pollVars,
                   fileVars, currentConfig, pollRun, cycles, validation,
                   generatedSchemaName, monitor>>

\* a request for a route from token 1 to another token over up to MaxFeeds
\* feeds between MaxTokens tokens, with maxHops from 0 to MaxHopsArg
InitRoute ==
    /\ InitProcesses
    /\ pollAggs = <<>>
    /\ impl = "api/index.ts"
    /\ maxRetries = 1
    /\ ticksLeft = 0
    /\ crashesLeft = 0
    /\ pollsLeft = 0
    /\ db = <<>>
    /\ config = PlainConfig
    /\ \E n \in 0..MaxFeeds :
         \E feeds \in [1..n -> {p \in (1..MaxTokens) \X (1..MaxTokens) : p[1] <= p[2]}] :
           \E t \in 2..MaxTokens, h \in 0..MaxHopsArg :
              route = [NoRequest EXCEPT !.feeds = feeds, !.fromToken = 1,
                                        !.toToken = t, !.maxHops = h]

SpecRoute == InitRoute /\ [][quote]_vars

(* ------------------------------ properties ----------------------------- *)
\* C1: bounded retries: the health timer invokes a restart (or start) of a
\* managed process at most maxRetries times in the lifetime of the supervisor
C1_BoundedRetries == \A s \in Slots : restartsInvoked[s] <= maxRetries

\* C2: restart-ceiling guard: a run of checkHealth whose report shows a
\* process with running = false and restarts >= maxRetries invokes neither
\* restart nor start for it, and after the tick getHealthStatus still reports
\* running: false for it
C2_RestartCeiling ==
    [][\A s \in Slots :
         /\ restartsInvoked'[s] # restartsInvoked[s]
              => ~(/\ ~tasks'["health"].snap[s].running
                   /\ tasks'["health"].snap[s].restarts >= maxRetries)
         /\ (/\ ticksLeft' # ticksLeft
             /\ ~getHealthStatus(Cur)[s].running
             /\ getHealthStatus(Cur)[s].restarts >= maxRetries)
              => /\ ~getHealthStatus(Cur)'[s].running
                 /\ restartsInvoked'[s] = restartsInvoked[s]]_vars

\* a tick has reported a stopped process at the ceiling and has left it alone
C2_Witness ==
    /\ ticksLeft < MaxHealthTicks
    /\ tasks["health"].pc = "idle"
    /\ \E s \in Slots :
         /\ ~tasks["health"].snap[s].running
         /\ tasks["health"].snap[s].restarts >= maxRetries
         /\ ~getHealthStatus(Cur)[s].running
         /\ restartsInvoked[s] = 0

\* the discovery timer is in backup -> write -> validate -> restartAll
PollReconfigures ==
    tasks["poll"].pc \in {"backup", "update", "validate", "stopwait", "delay", "settle"}

\* C3: mutual exclusion: a restart of the aggregators indexer by the health
\* timer never overlaps with a reconfiguration by the discovery timer
C3_MutualExclusion ==
    ~(/\ tasks["health"].pc \in {"stopwait", "delay", "settle"}
      /\ tasks["health"].step = 3
      /\ PollReconfigures)

\* C4: shutdown: after stop() of a supervisor that had completed its start
\* and whose timers stop() has cancelled, no worker spawned by the supervisor
\* is alive, except one that has been sent SIGKILL and whose exit has not
\* been reported yet
C4_Shutdown ==
    (stopDone /\ tasks["boot"].pc = "done" /\ ~healthTimer /\ ~discoveryTimer)
      => \A c \in ChildIds : (child[c].used /\ child[c].alive) => child[c].kill9

C6_GracefulThenForced ==
    [][/\ \A c \in ChildIds :
            (child'[c].kill9 /\ ~child[c].kill9)
              => /\ child[c].alive
                 /\ child[c].term
                 /\ child[c].termAge * GraceWindowMs >= GraceWindowMs
       /\ \A w \in waiters :
            (/\ ~\E x \in waiters' : x.task = w.task /\ x.slot = w.slot /\ x.child = w.child
             /\ child[w.child].alive
             /\ child'[w.child].used /\ child'[w.child].alive)
              => child'[w.child].kill9]_vars

\* a worker that ignored SIGTERM for a grace window has been sent SIGKILL
C6_Witness ==
    \E c \in ChildIds : child[c].alive /\ child[c].term /\ child[c].kill9

\* C7: validation soundness: when validateGeneratedConfig returns false for
\* the text that generateAggregatorConfig has written, the configuration
\* file holds, after the failed reconfiguration, the text it held before the
\* mutation
C7_ValidationSoundness ==
    [][\A t \in GateTasks :
         (/\ tasks[t].pc = "validate"
          /\ tasks'[t].pc # "validate"
          /\ ~validateGeneratedConfig(config))
           => config' = currentConfig]_vars

\* C8: backup before write: whenever the text of the configuration file is
\* replaced by another text, a backup file holds the text that is replaced
C8_BackupBeforeWrite == [][config' # config => config \in backups]_vars

\* C9: the restart count reported by getHealthStatus never decreases
C9_Monotonic ==
    [][\A s \in Slots :
         getHealthStatus(Cur)'[s].restarts >= getHealthStatus(Cur)[s].restarts]_vars

\* C10: when restartIndexer returns true the role has a running record whose
\* restart count is one greater than the count reported before the call
C10_RestartOutcome ==
    [][LET t == tasks["health"]
           s == HealthStep(t.step)
       IN  (/\ t.pc = "settle"
            /\ tasks'["health"] # t
            /\ s[2] = "indexer"
            /\ ~SettleFailed(Cur, t.child))
             => /\ processInfo[s].status = "running"
                /\ processInfo[s].restarts = t.before + 1]_vars

\* C11: the exit of a worker, or the error of its spawn, leaves the role
\* without an entry in processes and in processInfo; for a role without an
\* entry getHealthStatus reports running: false and uptime: 0
C11_ExitClearsEntry ==
    /\ [](\A s \in Slots :
            processInfo[s] = NoInfo
              => /\ ~getHealthStatus(Cur)[s].running
                 /\ getHealthStatus(Cur)[s].uptime = 0)
    /\ [][\A c \in ChildIds :
            (child[c].used /\ child[c].alive /\ ~child'[c].alive)
              => /\ processes'[child[c].slot] = 0
                 /\ processInfo'[child[c].slot] = NoInfo]_vars

\* a worker that had been started has exited on its own, and its role is
\* reported as not running with no uptime
C11_Witness ==
    /\ crashesLeft < MaxCrashes
    /\ \E s \in Slots :
         /\ processes[s] = 0 /\ processInfo[s] = NoInfo
         /\ \E t \in TaskIds : tasks[t].pc = "settle"
                                /\ tasks[t].child # 0
                                /\ child[tasks[t].child].slot = s
                                /\ ~child[tasks[t].child].alive
         /\ ~getHealthStatus(Cur)[s].running
         /\ getHealthStatus(Cur)[s].uptime = 0

\* C12: when the settle check of a start finds the spawned worker exited or
\* killed, so that the start returns false, the role of the worker has no
\* entry in processes and processInfo
C12_SettleCheck ==
    [][\A t \in TaskIds :
         (/\ tasks[t].pc = "settle"
          /\ tasks'[t] # tasks[t]
          /\ SettleFailed(Cur, tasks[t].child))
           => /\ processes[child[tasks[t].child].slot] = 0
              /\ processInfo[child[tasks[t].child].slot] = NoInfo]_vars

\* C13: abort before Steady: when a phase of start() fails (a start whose
\* settle check fails, the readiness wait, the generation or the validation
\* of the configuration), start() takes its catch block; once the stop() of
\* the catch block has returned no worker is left alive unless SIGKILL has
\* been sent to it, no timer is armed, and the process has exited with
\* status 1; the timers are never armed after the failure
C13_AbortBeforeSteady ==
    /\ [](tasks["boot"].pc = "failed"
            => /\ ~isRunning /\ ~healthTimer /\ ~discoveryTimer
               /\ exited # 1
               /\ stopDone
                    => /\ exited = 2
                       /\ \A c \in ChildIds :
                            (child[c].used /\ child[c].alive) => child[c].kill9)
    /\ [][LET b == tasks["boot"]
          IN  \/ /\ b.pc = "settle" /\ tasks'["boot"] # b
                 /\ SettleFailed(Cur, b.child)
              \/ /\ b.pc = "ready" /\ tasks'["boot"].pc \notin {"ready", "query"}
              \/ /\ b.pc = "update" /\ tasks'["boot"] # b /\ ~CanBuild(config)
              \/ /\ b.pc = "validate" /\ tasks'["boot"] # b
                 /\ ~validateGeneratedConfig(config)
              => tasks'["boot"].pc = "failed"]_vars

\* the start has failed while a worker was running, stop() has returned after
\* the worker ignored SIGTERM for the grace window, and the process has
\* exited with status 1
C13_Witness ==
    /\ tasks["boot"].pc = "failed"
    /\ stopDone
    /\ exited = 2
    /\ \E c \in ChildIds : child[c].used /\ child[c].alive /\ child[c].kill9

\* C14: readiness gating: start() is past its readiness wait, and the
\* aggregators indexer is spawned, only when a poll of /ready has returned
\* HTTP 200 with a body that does not include "not complete"
C14_ReadinessGating ==
    /\ tasks["boot"].pc \in {"query", "read", "backup", "update", "validate"}
         => readyBy.kind = "http" /\ readyBy.status = 200 /\ ~readyBy.notComplete
    /\ \A c \in ChildIds :
         (child[c].used /\ child[c].slot = <<"aggregators", "indexer">>)
           => readyBy.kind = "http" /\ readyBy.status = 200 /\ ~readyBy.notComplete

\* C15: the readiness timeout is a hard abort: start() never goes on to the
\* generation of the configuration or to the steady state when the wait has
\* lasted maxWaitTime (10 minutes) without a report of readiness
C15_TimeoutAborts ==
    (\/ tasks["boot"].pc \in {"generate", "validate", "activate", "wait", "delay",
                               "done"}
     \/ tasks["boot"].pc \in {"stopwait", "settle"} /\ tasks["boot"].step >= 3)
    => elapsed < RegMaxWaitTimeMs

\* C16: Discovering phase: when the query of the discovery store fails (the
\* store holds qualifying rows and the discovery of start() yields none),
\* start() is aborted and does not go on to the configuration and the start
\* of the aggregators indexer
C16_DiscoveryFailureAborts ==
    [][(/\ tasks["boot"].pc = "query"
        /\ tasks'["boot"].pc # "query"
        /\ Aggregators(db) # <<>>
        /\ pollAggs' = <<>>)
         => tasks'["boot"].pc = "failed"]_vars

\* C17: a discovery call whose connection or query fails returns the empty
\* list and leaves the in-memory map as it was before the call.
C17_FailureKeepsMap ==
    [][(Len(cycles') = Len(cycles) + 1 /\ ~cycles'[Len(cycles')].ok)
        => /\ pollAggs' = <<>>
           /\ discoveredAggregators' = discoveredAggregators]_vars

\* a failed call made while the store holds feeds and the map holds the
\* aggregators of an earlier call
C17_Witness ==
    /\ cycles # <<>>
    /\ ~cycles[Len(cycles)].ok
    /\ Aggregators(db) # <<>>
    /\ discoveredAggregators # {}
    /\ pollAggs = <<>>

\* C18: the list returned by one discovery call has no two records with the
\* same (chainId, address) pair.
C18_NoDuplicatesReturned ==
    \A i, j \in 1..Len(pollAggs) :
        i # j => <<pollAggs[i].chainId, pollAggs[i].address>>
                 # <<pollAggs[j].chainId, pollAggs[j].address>>

\* C19: after any sequence of discovery cycles the map holds exactly one
\* entry per pair ever discovered (found by some cycle), stamped with the
\* time of the most recent cycle that found the pair, and getStats().total
\* counts the pairs.
C19_OneEntryPerPair ==
    LET EverFound == UNION {cycles[i].found : i \in 1..Len(cycles)}
        FoundAt(k) == {cycles[i].at :
                         i \in {j \in 1..Len(cycles) : k \in cycles[j].found}}
        LastFoundAt(k) == CHOOSE t \in FoundAt(k) : \A u \in FoundAt(k) : u <= t
    IN  /\ discoveredAggregators
             = {[key |-> k, discoveredAt |-> LastFoundAt(k)] : k \in EverFound}
        /\ getStats(discoveredAggregators).total = Cardinality(EverFound)

\* two cycles found a pair and only the earlier one found another pair
C19_Witness ==
    /\ Len(cycles) = 2
    /\ \E k \in cycles[1].found \cap cycles[2].found :
          [key |-> k, discoveredAt |-> cycles[2].at] \in discoveredAggregators
    /\ \E k \in cycles[1].found \ cycles[2].found :
          [key |-> k, discoveredAt |-> cycles[1].at] \in discoveredAggregators
    /\ cycles[2].ok

\* the chain names of the chain blocks of a text, and the address lists of
\* its chain blocks, in the order of the text
ChainNames(text) ==
    LET blocks == SelectSeq(text, LAMBDA t : t.k = "name")
    IN  [i \in 1..Len(blocks) |-> blocks[i].v[1]]
AddressLists(text) ==
    LET blocks == SelectSeq(text, LAMBDA t : t.k = "addrs")
    IN  [i \in 1..Len(blocks) |-> blocks[i].v]

\* C20: whatever the order of the records passed to updateAggregatorConfig,
\* the written aggregator block has one chain block per chain of the records,
\* in ascending order of the chain names, and each chain block lists the
\* addresses of its chain in ascending order.
C20_DeterministicOrdering ==
    [][config' # config =>
        LET names == ChainNames(config')
            lists == AddressLists(config')
        IN  /\ \A i, j \in 1..Len(names) : i < j => names[i] < names[j]
            /\ {names[i] : i \in 1..Len(names)}
                 = {pollAggs[i].chainName : i \in 1..Len(pollAggs)}
            /\ Len(lists) = Len(names)
            /\ \A b \in 1..Len(lists) :
                  /\ \A i, j \in 1..Len(lists[b]) :
                        i < j => lists[b][i] <= lists[b][j]
                  /\ Len(lists[b]) = Len(GroupOf(pollAggs, names[b]))
                  /\ {lists[b][i] : i \in 1..Len(lists[b])}
                       = {pollAggs[i].address :
                            i \in {j \in 1..Len(pollAggs) :
                                     pollAggs[j].chainName = names[b]}}]_vars

\* ethereum {0xbb, 0xaa} and base {0xcc} supplied with ethereum first and
\* 0xbb before 0xaa: the file has base [0xcc], then ethereum [0xaa, 0xbb]
C20_Witness ==
    /\ Len(pollAggs) = 3
    /\ pollAggs[1].chainName = ethereum /\ pollAggs[1].address = 2
    /\ pollAggs[2].chainName = base /\ pollAggs[2].address = 3
    /\ pollAggs[3].chainName = ethereum /\ pollAggs[3].address = 1
    /\ ChainNames(config) = <<base, ethereum>>
    /\ AddressLists(config) = << <<3>>, <<1, 2>> >>

\* C21: in the written configuration every chain block lists each address at
\* most once, whatever list of aggregators was passed in.
C21_AddressesDeduplicated ==
    \A b \in 1..Len(AddressLists(config)) :
        \A i, j \in 1..Len(AddressLists(config)[b]) :
            i # j => AddressLists(config)[b][i] # AddressLists(config)[b][j]

\* C22: validateGeneratedConfig() returns true exactly when the file can be
\* read and its text holds `export default createConfig({`, holds
\* AccessControlledOffchainAggregatorAbi and has as many opening as closing
\* braces; otherwise it returns false, which ends generateAggregatorConfig in
\* its catch block.
C22_ValidateIff ==
    [][\A t \in GateTasks :
        (tasks[t].pc = "validate" /\ tasks'[t].pc # "validate") =>
          /\ validation' \in {"passed", "rejected", "unreadable"}
          /\ validation' = "passed" <=>
                /\ validation' # "unreadable"
                /\ \E i \in 1..(Len(config) - 1) :
                      config[i].k = "entry" /\ config[i + 1].k = "ob"
                /\ \E i \in 1..Len(config) : config[i].k = "abi"
                /\ Cardinality({i \in 1..Len(config) : config[i].k = "ob"})
                     = Cardinality({i \in 1..Len(config) : config[i].k = "cb"})
          /\ validation' # "passed" =>
                \/ t = "boot" /\ tasks'["boot"].pc = "failed"
                \/ t = "poll" /\ tasks'["poll"] = IdleTask]_vars

\* a readable text with the entry point and the identifier whose braces do
\* not balance was rejected
C22_Witness ==
    /\ validation = "rejected"
    /\ \E i \in 1..(Len(config) - 1) : config[i].k = "entry" /\ config[i + 1].k = "ob"
    /\ \E i \in 1..Len(config) : config[i].k = "abi"
    /\ CountTok(config, "ob") # CountTok(config, "cb")

\* C23: a rewrite of the configuration changes only the
\* AccessControlledOffchainAggregator block: the text before the block and
\* the text after the closing brace that matches the block's opening brace
\* are the same before and after, and the new block lists exactly the
\* aggregators that were supplied.
C23_OnlyBlockChanges ==
    [][config' # config =>
        LET Closers(text) ==
                {j \in SectionStart(text)..Len(text) :
                    /\ text[j].k = "cb"
                    /\ CountTok(SubSeq(text, SectionStart(text), j), "ob")
                         = CountTok(SubSeq(text, SectionStart(text), j), "cb")}
            BlockEnd(text) ==
                CHOOSE j \in Closers(text) : \A m \in Closers(text) : j <= m
            block == SubSeq(config', SectionStart(config'), BlockEnd(config'))
        IN  /\ Closers(config) # {} /\ Closers(config') # {}
            /\ SubSeq(config', 1, SectionStart(config') - 1)
                 = SubSeq(config, 1, SectionStart(config) - 1)
            /\ SubSeq(config', BlockEnd(config') + 1, Len(config'))
                 = SubSeq(config, BlockEnd(config) + 1, Len(config))
            /\ UNION {{<<ChainNames(block)[b], AddressLists(block)[b][m]>> :
                          m \in 1..Len(AddressLists(block)[b])} :
                       b \in 1..Len(ChainNames(block))}
                 = {<<pollAggs[m].chainName, pollAggs[m].address>> :
                       m \in 1..Len(pollAggs)}]_vars

\* C24: the text written by a generation does not depend on when it is made:
\* the same generation (same starting text, same aggregators) made at the
\* next instant gives the same text.
C24_SameTextAtAnyTime ==
    [][config' # config =>
        config' = buildConfigWithAggregators(config, pollAggs, now')]_vars

\* C25: the generated schema name depends on the set of (chain, address)
\* pairs only: the name stored by a generation is the name that the same
\* aggregators give at the next instant and in the opposite order.
C25_SchemaNameOfContent ==
    [][generatedSchemaName' # generatedSchemaName =>
        /\ generatedSchemaName' = generateSchemaName(pollAggs, now + 1)
        /\ generatedSchemaName'
             = generateSchemaName([i \in 1..Len(pollAggs) |->
                                     pollAggs[Len(pollAggs) + 1 - i]], now)]_vars

\* C26: in the steady state, when the flags indexer or the aggregators
\* indexer has exited on its own (its role is not registered and no
\* reconfiguration is in progress), the supervisor eventually invokes a
\* restart of it, so that a worker of the role is registered again.
C26_HealthRestarts ==
    \A m \in {"flags", "aggregators"} :
        (/\ tasks["boot"].pc = "done" /\ isRunning /\ exited = 0
         /\ tasks["poll"].pc = "idle"
         /\ processes[<<m, "indexer">>] = 0
         /\ getHealthStatus(Cur)[<<m, "indexer">>].restarts < maxRetries)
        ~> (\/ restartsInvoked[<<m, "indexer">>] > 0
            \/ processes[<<m, "indexer">>] # 0)

\* C27: a discovery poll that returns an aggregator whose (chainId, address)
\* pair was not in the discovered set before the poll goes on, in the same
\* run, to the update of the aggregators configuration and the restart of the
\* aggregators indexer.
C27_NewAggregatorsReconfigure ==
    [][(/\ tasks["poll"].pc = "query"
        /\ tasks'["poll"].pc # "query"
        /\ {e.key : e \in discoveredAggregators'}
             # {e.key : e \in discoveredAggregators})
         => tasks'["poll"].pc = "backup"]_vars

\* C28: a reconfiguration of the aggregators indexer (backup, write,
\* validation, restartAll) never stops, signals or restarts a worker of the
\* flags app: no step of it changes the registry of the flags ProcessManager
\* or a worker of the flags app.
C28_FlagsUntouched ==
    [][(PollReconfigures /\ tasks'["poll"] # tasks["poll"]) =>
        /\ \A r \in Roles :
              /\ processes'[<<"flags", r>>] = processes[<<"flags", r>>]
              /\ processInfo'[<<"flags", r>>] = processInfo[<<"flags", r>>]
        /\ \A c \in ChildIds :
              (child[c].used /\ child[c].slot[1] = "flags") => child'[c] = child[c]]_vars

\* the reconfiguration has spawned the new aggregators indexer while the
\* flags indexer started by start() is registered, alive and not signalled
C28_Witness ==
    /\ tasks["poll"].pc = "settle"
    /\ processes[<<"aggregators", "indexer">>] # 0
    /\ processes[<<"flags", "indexer">>] # 0
    /\ processInfo[<<"flags", "indexer">>].restarts = 0
    /\ child[processes[<<"flags", "indexer">>]].alive
    /\ ~child[processes[<<"flags", "indexer">>]].term
    /\ restartsInvoked[<<"flags", "indexer">>] = 0


\* C29: for two different tokens and maxHops >= 1, findShortestRoute returns
\* null exactly when no path of at most maxHops edges without a repeated token
\* leads from fromToken to toToken; otherwise the route has the least possible
\* number of hops, its path starts at fromToken, ends at toToken, follows
\* edges of the graph, repeats no token, and hops = number of conversions =
\* length of the path - 1.  (A shortest walk repeats no token, so the tokens
\* within k edges of fromToken are those with a path of at most k edges
\* without a repeated token.)
C29_ShortestRoute ==
    (route.answered /\ route.fromToken # route.toToken /\ route.maxHops >= 1) =>
        LET r == route.result
            graph == buildTokenGraph(route.feeds)
            Adjacent(a, b) == \E i \in 1..Len(route.feeds) :
                                 route.feeds[i] \in {<<a, b>>, <<b, a>>}
            RECURSIVE Within(_)
            Within(k) == IF k = 0 THEN {route.fromToken}
                         ELSE Within(k - 1) \cup
                              {b \in 1..MaxTokens :
                                 \E a \in Within(k - 1) : Adjacent(a, b)}
        IN  /\ (r = NullRoute) <=> (route.toToken \notin Within(route.maxHops))
            /\ r # NullRoute =>
                 /\ r.hops = Len(r.conversions)
                 /\ r.hops = Len(r.path) - 1
                 /\ r.hops >= 1
                 /\ r.path[1] = route.fromToken
                 /\ r.path[Len(r.path)] = route.toToken
                 /\ \A i, j \in 1..Len(r.path) : i # j => r.path[i] # r.path[j]
                 /\ \A i \in 1..Len(r.conversions) :
                      /\ r.conversions[i].from = r.path[i]
                      /\ r.conversions[i].toToken = r.path[i + 1]
                      /\ \E n \in 1..Len(graph[r.path[i]]) :
                            graph[r.path[i]][n] = r.conversions[i]
                 /\ route.toToken \notin Within(r.hops - 1)

\* a request answered with a route of two hops although the graph holds a
\* feed from fromToken to itself
C29_Witness ==
    /\ route.answered
    /\ route.maxHops >= 2
    /\ route.result.hops = 2
    /\ \E i \in 1..Len(route.feeds) :
          route.feeds[i] = <<route.fromToken, route.fromToken>>

\* C30: maxHops bounds the length of a route: whatever the graph, the two
\* tokens and maxHops (0 included), a returned route has hops <= maxHops.
C30_HopsWithinMaxHops ==
    (route.answered /\ route.result # NullRoute) =>
        route.result.hops <= route.maxHops

\* C31: a validation failure during a reconfiguration of the steady state
\* leaves the running aggregators app untouched: the run of the discovery
\* interval returns without a change to a registry or to a worker, and the
\* run acts on the workers of the aggregators app (restartAll, a stop
\* signal, a registration) only after the validation of the text it wrote
\* returned true
C31_RestartOnlyAfterValidation ==
    [][/\ (/\ tasks["poll"].pc = "validate"
           /\ tasks'["poll"].pc # "validate"
           /\ validation' # "passed")
          => /\ tasks'["poll"] = IdleTask
             /\ processes' = processes
             /\ processInfo' = processInfo
             /\ child' = child
             /\ restartsInvoked' = restartsInvoked
       /\ (/\ tasks'["poll"] # tasks["poll"]
           /\ \/ \E r \in Roles :
                    \/ processes'[<<"aggregators", r>>] # processes[<<"aggregators", r>>]
                    \/ processInfo'[<<"aggregators", r>>] # processInfo[<<"aggregators", r>>]
              \/ \E c \in ChildIds :
                    /\ child'[c] # child[c]
                    /\ "aggregators" \in {child[c].slot[1], child'[c].slot[1]})
          => /\ validation' = "passed"
             /\ pollRun'.wrote
             /\ pollRun'.restarted]_vars

\* a run of the discovery interval has written the configuration, its
\* validation failed (the file could not be read back), and it has returned
\* with the aggregators indexer still registered and alive
C31_Witness ==
    /\ tasks["poll"].pc = "idle"
    /\ pollRun.wrote
    /\ ~pollRun.restarted
    /\ validation = "unreadable"
    /\ processes[<<"aggregators", "indexer">>] # 0
    /\ child[processes[<<"aggregators", "indexer">>]].alive
    /\ ~child[processes[<<"aggregators", "indexer">>]].term

\* C32: when the discovery of start() returns no aggregators, the aggregators
\* indexer is started with a configuration whose aggregator block lists no
\* address, whatever the file held before
C32_EmptyDiscoveryEmptyConfig ==
    (/\ db = <<>>
     /\ tasks["boot"].step = 3
     /\ processes[<<"aggregators", "indexer">>] # 0)
      => \A b \in 1..Len(AddressLists(config)) : AddressLists(config)[b] = <<>>

\* C33: at most one live worker per role: every live child spawned by a
\* ProcessManager is the one its registry records for that role, so no
\* manager has two live children of the same role
C33_OneLiveWorkerPerRole ==
    \A c, d \in ChildIds :
        (/\ c # d
         /\ child[c].used /\ child[c].alive
         /\ child[d].used /\ child[d].alive)
          => child[c].slot # child[d].slot

\* C34: a registry entry is removed only by the exit of the child it
\* describes: the 'exit' or 'error' event of a child spawned earlier never
\* removes the entry of a newer child started since for the same role
C34_ExitRemovesOwnEntryOnly ==
    [][\A c \in ChildIds :
          (/\ child[c].used /\ child[c].alive
           /\ ~(child'[c].used /\ child'[c].alive)
           /\ processes[child[c].slot] # 0
           /\ processes[child[c].slot] # c)
            => /\ processes'[child[c].slot] = processes[child[c].slot]
               /\ processInfo'[child[c].slot] = processInfo[child[c].slot]]_vars

\* C35: the supervisor process exits on a termination signal only after
\* every worker it manages has been stopped, however many signals arrive and
\* whenever they arrive: once the shutdown handler has called
\* process.exit(0) no worker is alive, except one that has been sent SIGKILL
C35_ExitAfterWorkersStopped ==
    exited = 1 =>
        \A c \in ChildIds : (child[c].used /\ child[c].alive) => child[c].kill9

\* C36: a start reports success only for a registered worker: when the
\* settle check of startIndexer or startServer passes, so that the start
\* returns true, the role of the worker has a registry entry and
\* isProcessRunning of the role is true; a spawn that fails with an 'error'
\* event does not pass the check
C36_StartTrueIsRegistered ==
    [][\A t \in TaskIds :
         (/\ tasks[t].pc = "settle"
          /\ tasks[t].child # 0
          /\ tasks'[t] # tasks[t]
          /\ ~SettleFailed(Cur, tasks[t].child))
           => /\ processes[child[tasks[t].child].slot] # 0
              /\ isProcessRunning(Cur, child[tasks[t].child].slot)]_vars

\* C37: the mutation of the configuration is idempotent apart from the
\* generation timestamp: applying updateAggregatorConfig with the same
\* aggregators to its own result gives the same text except for the
\* `// Generated at:` line, so no second aggregator block and no fragment of
\* the first is left by the second application
C37_MutationIdempotent ==
    [][(config' # config /\ pollsLeft < DiscCalls) =>
         LET Undated(text) == [i \in 1..Len(text) |->
                                 IF text[i].k = "gen" THEN Tok("gen") ELSE text[i]]
         IN  Undated(config') = Undated(config)]_vars

\* the second application has been made, with aggregators of two chains, on
\* a text that the first application wrote
C37_Witness ==
    /\ pollsLeft = DiscCalls - 2
    /\ config # currentConfig
    /\ \E i \in 1..Len(currentConfig) : currentConfig[i].k = "gen"
    /\ Len(GroupKeys(pollAggs)) = 2

\* C38: no discovered aggregator is silently dropped: the generation time
\* that the next discovery tick reads from the configuration advances only
\* with a restart on a validated configuration: when a run of the discovery
\* interval that wrote the configuration returns, the validation has passed,
\* the aggregators indexer is registered and running, and the configuration
\* lists every aggregator found so far
C38_TimestampAdvancesWithRestart ==
    [][(/\ tasks["poll"].pc # "idle"
        /\ tasks'["poll"].pc = "idle"
        /\ pollRun'.wrote
        /\ getLastConfigGeneration(config') # pollRun'.since)
         => /\ validation' = "passed"
            /\ processes'[<<"aggregators", "indexer">>] # 0
            /\ processInfo'[<<"aggregators", "indexer">>].status = "running"
            /\ ~child'[processes'[<<"aggregators", "indexer">>]].killed
            /\ \A e \in discoveredAggregators' :
                  \E b \in 1..Len(ChainNames(config')) :
                     /\ ChainNames(config')[b] = chainIdToName(e.key[1])
                     /\ \E n \in 1..Len(AddressLists(config')[b]) :
                           AddressLists(config')[b][n] = e.key[2]]_vars

\* C39: startMonitoring calls onChainsReady at most once per call of
\* startMonitoring, however the initial check, the checks of the interval
\* (which overlap while they await the status) and the cleanup interleave;
\* the flag is set exactly when the call has been made
C39_CallbackAtMostOnce ==
    /\ Len(monitor.calls) <= 1
    /\ monitor.hasCalledCallback <=> Len(monitor.calls) = 1

\* onChainsReady has been called for one chain, and a run of checkStatus
\* that overlapped with the calling one has since returned with two chains
\* ready without a second call
C39_Witness ==
    /\ Len(monitor.calls) = 1
    /\ Cardinality(monitor.calls[1]) = 1
    /\ Cardinality(monitor.lastKnownStatus) = 2
    /\ monitor.pending = 0
    /\ monitor.checksLeft = MaxChecks - 2

============================================================================
